---------------------------- MODULE Spec2Model ----------------------------
(***************************************************************************)
(* Model of the BLKOUT IVOR backend chat core:                             *)
(*   - IvorPersona        (src/src/services/ivor.persona.ts)               *)
(*   - GroqService        (src/src/services/groq.service.ts)               *)
(*   - SQLiteService      (src/src/database/sqlite.service.ts, 56..303)    *)
(*   - chat router        (src/src/database/sqlite.service.ts, 304..504)   *)
(*   - the SQLite schema  (src/unnamed/part_001)                           *)
(* Texts are TLA+ strings; every await of the code is one atomic step.     *)
(***************************************************************************)
EXTENDS Integers, Sequences, FiniteSets, TLC

(***************************************************************************)
(* Bounds of the model.                                                    *)
(***************************************************************************)
MaxTime == 1       \* the clock datetime('now') runs over 0..MaxTime
MaxEvents == 20    \* rows of the events table
MaxOps == 3        \* calls a caller of the store makes after its first one

(***************************************************************************)
(* Text helpers: JavaScript string primitives the code uses.               *)
(***************************************************************************)
Min(S) == CHOOSE x \in S : \A y \in S : x <= y

Char(s, i) == SubSeq(s, i, i)

IsSpace(c) == c \in {" ", "\t", "\n", "\r"}

\* String.prototype.trimStart / trimEnd
RECURSIVE TrimStart(_)
TrimStart(s) ==
  IF Len(s) > 0 /\ IsSpace(Char(s, 1)) THEN TrimStart(SubSeq(s, 2, Len(s))) ELSE s

RECURSIVE TrimEnd(_)
TrimEnd(s) ==
  IF Len(s) > 0 /\ IsSpace(Char(s, Len(s))) THEN TrimEnd(SubSeq(s, 1, Len(s) - 1)) ELSE s

\* String.prototype.trim / express-validator trim()
Trim(s) == TrimEnd(TrimStart(s))

\* String.prototype.includes (case-sensitive substring test)
Includes(s, t) ==
  \E i \in 1..(Len(s) - Len(t) + 1) : SubSeq(s, i, i + Len(t) - 1) = t

LowerChar(c) ==
  CASE c = "A" -> "a" [] c = "B" -> "b" [] c = "C" -> "c" [] c = "D" -> "d"
    [] c = "E" -> "e" [] c = "F" -> "f" [] c = "G" -> "g" [] c = "H" -> "h"
    [] c = "I" -> "i" [] c = "J" -> "j" [] c = "K" -> "k" [] c = "L" -> "l"
    [] c = "M" -> "m" [] c = "N" -> "n" [] c = "O" -> "o" [] c = "P" -> "p"
    [] c = "Q" -> "q" [] c = "R" -> "r" [] c = "S" -> "s" [] c = "T" -> "t"
    [] c = "U" -> "u" [] c = "V" -> "v" [] c = "W" -> "w" [] c = "X" -> "x"
    [] c = "Y" -> "y" [] c = "Z" -> "z" [] OTHER -> c

\* String.prototype.toLowerCase
RECURSIVE ToLower(_)
ToLower(s) ==
  IF Len(s) = 0 THEN ""
  ELSE IF Len(s) = 1 THEN LowerChar(s)
  ELSE LET h == Len(s) \div 2
       IN ToLower(SubSeq(s, 1, h)) \o ToLower(SubSeq(s, h + 1, Len(s)))

\* Array.prototype.join(sep)
RECURSIVE Join(_, _)
Join(xs, sep) ==
  IF Len(xs) = 0 THEN ""
  ELSE IF Len(xs) = 1 THEN xs[1]
  ELSE xs[1] \o sep \o Join(Tail(xs), sep)

(***************************************************************************)
(* IvorPersona                                                             *)
(***************************************************************************)
\* initializeCommunityKnowledge: the Map, in insertion order
communityKnowledge == <<
  [topic |-> "mental health",
   message |-> "I understand how important mental health is, especially as a QTIPOC person in the UK. You might find support through the NHS IAPT services, or community-specific support like Black Thrive BQC in South London. Many of us find strength in community connection too."],
  [topic |-> "housing",
   message |-> "Housing struggles are unfortunately common in our community. If you're facing homelessness or housing insecurity, The Outside Project offers LGBTQ+ specific housing support. Shelter and your local council's housing team can also help with your rights and options."],
  [topic |-> "benefits",
   message |-> "Navigating the benefits system can be overwhelming. Citizens Advice offers free, confidential support with benefit claims and appeals. If you're LGBTQ+ and facing discrimination, the LGBT Foundation also has welfare rights advice."],
  [topic |-> "coming out",
   message |-> "Coming out is a deeply personal journey, and there's no 'right' way or timeline. The LGBT Foundation has great resources, and locally, organizations like Gendered Intelligence (for trans experiences) offer community support. You know yourself best."],
  [topic |-> "discrimination",
   message |-> "I'm sorry you're experiencing discrimination. You have rights under the Equality Act 2010. ACAS offers free employment advice, and the Equality and Human Rights Commission can guide you on legal options. Remember, you deserve to be treated with dignity."],
  [topic |-> "healthcare",
   message |-> "Accessing affirming healthcare can be challenging. If you're trans, the NHS Gender Identity Clinics have long waits, but CliniQ offers community-specific sexual health services. For general healthcare concerns, don't be afraid to advocate for yourself with your GP."]
>>

\* getFallbackResponse: the default warm fallback responses
fallbackResponses == <<
  "I'm here with you, even when technology isn't working perfectly. The BLKOUT community is built on resilience and mutual support. What you're feeling and experiencing matters.",
  "Technology might be giving me some challenges right now, but our community connection is stronger than any technical difficulty. I'm still here to listen and support you.",
  "I want to support you properly, but I'm having some technical difficulties at the moment. What I can tell you is that you're part of a powerful QTIPOC community that cares about you.",
  "While I work through some technical issues, please know that your voice and experiences are valued in our community. Is there something specific I can help you with when I'm back to full capacity?",
  "I'm experiencing some connectivity issues, but I don't want to leave you without support. The BLKOUT community has many resources and people who care. Your wellbeing matters to all of us."
>>

supportKeywords == <<"help", "struggling", "difficult", "hard", "lonely", "sad",
                     "depressed", "anxious", "worried", "scared", "alone">>

resourceKeywords == <<"housing", "benefits", "nhs", "mental health", "support",
                      "help", "services", "legal", "rights", "discrimination">>

isSeekingSupport(message) ==
  LET lowerMessage == ToLower(message)
  IN \E k \in 1..Len(supportKeywords) : Includes(lowerMessage, supportKeywords[k])

\* mutant: every message is taken to ask for resources
needsUKResources_always(message) == TRUE

needsUKResources(message) ==
  LET lowerMessage == ToLower(message)
  IN \E k \in 1..Len(resourceKeywords) : Includes(lowerMessage, resourceKeywords[k])

getRelevantUKResources(message) ==
  LET lowerMessage == ToLower(message)
      r1 == IF Includes(lowerMessage, "mental health") \/ Includes(lowerMessage, "therapy")
            THEN <<"NHS IAPT", "Black Thrive BQC">> ELSE <<>>
      r2 == IF Includes(lowerMessage, "housing") \/ Includes(lowerMessage, "homeless")
            THEN <<"Outside Project", "Shelter">> ELSE <<>>
      r3 == IF Includes(lowerMessage, "benefits") \/ Includes(lowerMessage, "money")
            THEN <<"Citizens Advice", "Turn2us">> ELSE <<>>
      r4 == IF Includes(lowerMessage, "work") \/ Includes(lowerMessage, "job")
            THEN <<"ACAS", "LGBT Foundation">> ELSE <<>>
      r5 == IF Includes(lowerMessage, "trans") \/ Includes(lowerMessage, "gender")
            THEN <<"Gendered Intelligence", "CliniQ">> ELSE <<>>
  IN r1 \o r2 \o r3 \o r4 \o r5

Opener == "I understand what you're going through. "
Solidarity == "\n\nRemember, you're part of a strong community. We're here for each other."
ResourcesLead == "\n\nSome UK resources that might help: "

\* mutant: the opener is never prepended
processResponse_noOpener(aiResponse, originalMessage) ==
  LET p2 == IF isSeekingSupport(originalMessage) THEN aiResponse \o Solidarity
            ELSE aiResponse
      ukResources == getRelevantUKResources(originalMessage)
  IN IF needsUKResources(originalMessage) /\ Len(ukResources) > 0
     THEN p2 \o ResourcesLead \o Join(ukResources, ", ") ELSE p2

processResponse(aiResponse, originalMessage) ==
  LET p1 == IF ~Includes(aiResponse, "I ") /\ ~Includes(aiResponse, "I'm")
            THEN Opener \o aiResponse ELSE aiResponse
      p2 == IF isSeekingSupport(originalMessage) THEN p1 \o Solidarity ELSE p1
      ukResources == getRelevantUKResources(originalMessage)
      p3 == IF needsUKResources(originalMessage) /\ Len(ukResources) > 0
            THEN p2 \o ResourcesLead \o Join(ukResources, ", ") ELSE p2
  IN p3

\* the topics of communityKnowledge whose keyword occurs in the message
MatchingTopics(userMessage) ==
  LET lowerMessage == ToLower(userMessage)
  IN {k \in 1..Len(communityKnowledge) :
        Includes(lowerMessage, communityKnowledge[k].topic)}

\* mutant: the random index runs one past the end of the list
getFallbackResponse_outOfRange(userMessage, rnd) ==
  LET matching == MatchingTopics(userMessage)
  IN IF matching # {}
     THEN communityKnowledge[Min(matching)].message
     ELSE IF rnd = Len(fallbackResponses) THEN "" ELSE fallbackResponses[rnd]

\* mutant: the topic whose keyword comes first in the message is answered
getFallbackResponse_byPosition(userMessage, rnd) ==
  LET matching == MatchingTopics(userMessage)
      lowerMessage == ToLower(userMessage)
      at(k) == Min({i \in 1..(Len(lowerMessage) - Len(communityKnowledge[k].topic) + 1) :
                      SubSeq(lowerMessage, i, i + Len(communityKnowledge[k].topic) - 1)
                        = communityKnowledge[k].topic})
  IN IF matching # {}
     THEN communityKnowledge[CHOOSE k \in matching :
                               \A j \in matching : at(k) <= at(j)].message
     ELSE fallbackResponses[rnd]

\* getFallbackResponse; rnd is Math.floor(Math.random() * 5) + 1
getFallbackResponse(userMessage, rnd) ==
  LET matching == MatchingTopics(userMessage)
  IN IF matching # {}
     THEN communityKnowledge[Min(matching)].message
     ELSE fallbackResponses[rnd]


(***************************************************************************)
(* GroqService                                                             *)
(***************************************************************************)
maxRetries == 3

EmptyResponseError == "Empty response from GROQ API"

\* what one call of groq.chat.completions.create can do: resolve with a
\* content (possibly empty or absent), or reject with an error
ProviderReplies == {"I hear you", "Here is some advice", " "}
ProviderErrors == {"timeout"}
ProviderOutcomes ==
  [kind : {"content"}, text : ProviderReplies \cup {""}]
    \cup [kind : {"reject"}, text : ProviderErrors]

\* mutant: an empty reply body is not taken for a failure
AttemptFails_rejectOnly(out) == out.kind = "reject"

\* the attempt failed: the create call rejected, or !response threw
AttemptFails(out) == out.kind = "reject" \/ out.text = ""

AttemptError(out) == IF out.kind = "reject" THEN out.text ELSE EmptyResponseError

\* mutant: the loop gives up one attempt early
RetryAgain_early(attempt) == attempt < maxRetries - 1

\* mutant: the loop makes one attempt too many
RetryAgain_late(attempt) == attempt <= maxRetries

\* the loop goes on to another attempt after a failed one
RetryAgain(attempt) == attempt < maxRetries

\* mutant: the error of the first failed attempt is kept
SetLastError_first(lastError, error) == IF lastError = "" THEN error ELSE lastError

\* lastError = error
SetLastError(lastError, error) == error

retryDelay == 1000

\* mutant: the wait does not grow with the attempt
BackoffDelay_constant(attempt) == retryDelay

\* this.retryDelay * attempt
BackoffDelay(attempt) == retryDelay * attempt

\* mutant: the canary's answer is looked for as it is written
HealthOk_caseSensitive(testResponse) == Includes(testResponse, "ok")

\* testResponse.toLowerCase().includes('ok')
HealthOk(testResponse) == Includes(ToLower(testResponse), "ok")

ExhaustedError(lastError) ==
  "GROQ API failed after " \o ToString(maxRetries) \o " attempts: " \o lastError

(***************************************************************************)
(* Schema and requests                                                     *)
(***************************************************************************)
MaxMessageLength == 2000
MinMessageLength == 1

\* rows of the users table (the code never writes it)
Users == {"u1"}

\* optional values: {} is undefined / NULL, {v} is the value v
Some(v) == {v}
None == {}
The(o) == CHOOSE v \in o : TRUE

\* JavaScript truthiness of an optional string
Truthy(o) == o # None /\ The(o) # ""

\* `x || null`
OrNull(o) == IF Truthy(o) THEN o ELSE None

RECURSIVE Repeat(_, _)
Repeat(s, n) ==
  IF n = 0 THEN ""
  ELSE IF n = 1 THEN s
  ELSE Repeat(s, n \div 2) \o Repeat(s, n - (n \div 2))

\* request bodies the model submits
MessageInputs == {None, Some(" I need housing help "), Some("hi"), Some("   "),
                  Some(Repeat("a", MaxMessageLength + 1))}
ConvIdInputs == {None, Some(""), Some("c1"), Some("zz")}
UserIdInputs == {None, Some(""), Some("u1"), Some("u9")}

\* mutant: the length is read before the message is trimmed
ValidMessage_untrimmed(m) ==
  /\ m # None
  /\ Len(The(m)) >= MinMessageLength
  /\ Len(The(m)) <= MaxMessageLength

\* body('message').isString().trim().isLength({ min: 1, max: 2000 })
ValidMessage(m) ==
  /\ m # None
  /\ Len(Trim(The(m))) >= MinMessageLength
  /\ Len(Trim(The(m))) <= MaxMessageLength

\* body('rating').isInt({ min: 1, max: 5 }): the validator reads the value as
\* text, an optional sign followed by digits, and compares its number
MinRating == 1
MaxRating == 5

IsDigit(c) == c \in {"0", "1", "2", "3", "4", "5", "6", "7", "8", "9"}

DigitValue(c) ==
  CASE c = "0" -> 0 [] c = "1" -> 1 [] c = "2" -> 2 [] c = "3" -> 3 [] c = "4" -> 4
    [] c = "5" -> 5 [] c = "6" -> 6 [] c = "7" -> 7 [] c = "8" -> 8 [] c = "9" -> 9

HasSign(s) == Len(s) > 0 /\ Char(s, 1) \in {"+", "-"}
Unsigned(s) == IF HasSign(s) THEN SubSeq(s, 2, Len(s)) ELSE s

IsInt(s) ==
  /\ Len(Unsigned(s)) > 0
  /\ \A i \in 1..Len(Unsigned(s)) : IsDigit(Char(Unsigned(s), i))

RECURSIVE ParseDigits(_)
ParseDigits(s) ==
  IF Len(s) = 0 THEN 0
  ELSE 10 * ParseDigits(SubSeq(s, 1, Len(s) - 1)) + DigitValue(Char(s, Len(s)))

\* the number the text denotes, for the validator's comparison and for the
\* INTEGER affinity of the rating columns
ToInt(s) ==
  IF HasSign(s) /\ Char(s, 1) = "-" THEN 0 - ParseDigits(Unsigned(s))
  ELSE ParseDigits(Unsigned(s))

\* mutant: the range of the rating is not validated
ValidRating_anyInt(r) == r # None /\ IsInt(The(r))

ValidRating(r) ==
  /\ r # None
  /\ IsInt(The(r))
  /\ ToInt(The(r)) >= MinRating
  /\ ToInt(The(r)) <= MaxRating

\* feedback requests the model submits
MessageIdInputs == {None, Some(""), Some("m1"), Some("m2"), Some("zz")}
RatingInputs == {None, Some("0"), Some("1"), Some("3"), Some("5"), Some("6"),
                 Some("3.5"), Some("-3")}
FeedbackTextInputs == {None, Some(""), Some("thanks")}

\* JSON.stringify of the metadata objects the code stores
JsonString(s) == "\"" \o s \o "\""
JsonField(f) == JsonString(f[1]) \o ":" \o (IF f[2] = "string" THEN JsonString(f[3]) ELSE f[3])
RECURSIVE JsonFields(_)
JsonFields(fs) ==
  IF Len(fs) = 0 THEN ""
  ELSE IF Len(fs) = 1 THEN JsonField(fs[1])
  ELSE JsonField(fs[1]) \o "," \o JsonFields(Tail(fs))
JsonStringify(fs) == "{" \o JsonFields(fs) \o "}"

GroqMetadata == <<
  <<"model", "string", "groq_llama2-70b">>,
  <<"source", "string", "groq_api">>,
  <<"confidence", "number", "0.95">> >>

FallbackMetadata == <<
  <<"model", "string", "ivor_community_knowledge">>,
  <<"source", "string", "qtipoc_local_knowledge">>,
  <<"confidence", "number", "0.85">>,
  <<"fallback_reason", "string", "groq_api_unavailable">> >>

DefaultMetadata == << >>

\* JSON.parse of a stored metadata text: the object the text was written from
JsonParse(text) ==
  CHOOSE o \in {DefaultMetadata, GroqMetadata, FallbackMetadata} :
    JsonStringify(o) = text

EmergencyResponse ==
  "I'm experiencing some technical difficulties right now, but I'm still here for you. "
  \o "The BLKOUT community is strong, and we support each other through all challenges. "
  \o "Please try again in a moment, or reach out through our other community channels."


(***************************************************************************)
(* State                                                                   *)
(***************************************************************************)
VARIABLES
  conversations,  \* table conversations: id -> row
  messages,       \* table messages: the rows in insertion order
  feedback,       \* table feedback: the rows in insertion order
  now,            \* the value of datetime('now')
  task,           \* per task: the running operation, its locals and position
  db              \* the SQLiteService instance: its handle and the database file

vars == <<conversations, messages, feedback, now, task, db>>

\* private db: Database | null = null, with what initialize() has done so far:
\* handle is this.db (null, an open handle, or a handle being closed),
\* foreign_keys the PRAGMA of the connection, tables whether the database file
\* has the tables of the schema, initialized whether initialize() has resolved,
\* closed whether close() has
ReadyDb ==
  [handle |-> "open", foreign_keys |-> TRUE, tables |-> TRUE,
   initialized |-> TRUE, started |-> TRUE, closed |-> FALSE]

\* where the instance is in its life
DbPhase ==
  IF db.handle = "null" THEN "null"
  ELSE IF db.handle = "closing" THEN "closing"
  ELSE IF db.initialized THEN "ready" ELSE "opening"

NotInitializedError == "Database not initialized. Call initialize() first."

\* mutant: getDB hands out this.db whatever it is
getDBThrows_never == FALSE

\* getDB(): if (!this.db) throw
getDBThrows == db.handle = "null"

\* a statement rejects: a fault of the database (I/O, lock), a handle that is
\* not open, or a database file without the tables
Fails(fault) == fault \/ db.handle # "open" \/ ~db.tables

\* what a store method that is a single statement rejects with
StoreError == IF getDBThrows THEN NotInitializedError ELSE "SQLITE_ERROR"

\* the tasks: each runs one operation (an HTTP request or a direct store call)
Procs == {1, 2}

\* ids generateId can return: an id not yet in the table (all such ids behave
\* alike, the least unused one stands for them), or one already in it
ConvId(i) == "c" \o ToString(i)
MsgId(i) == "m" \o ToString(i)
MessageIds == {messages[i].id : i \in 1..Len(messages)}
FreshConvId == ConvId(Cardinality(DOMAIN conversations) + 1)
FreshMsgId == MsgId(Len(messages) + 1)
generateConvIds == {FreshConvId} \cup DOMAIN conversations
generateMsgIds == {FreshMsgId} \cup MessageIds
FeedbackRowId(i) == "f" \o ToString(i)
FeedbackIds == {feedback[i].id : i \in 1..Len(feedback)}
FreshFeedbackId == FeedbackRowId(Len(feedback) + 1)
generateFeedbackIds == {FreshFeedbackId} \cup FeedbackIds

NoResult == [status |-> 0]

IdleTask ==
  [kind |-> "none", pc |-> "idle",
   message |-> "", conversation_id |-> None, user_id |-> None,
   conversationId |-> "", messageId |-> "",
   site |-> "", role |-> "", content |-> "", metadata |-> "",
   attempt |-> 0, lastError |-> "", reply |-> "", err |-> "",
   message_id |-> None, ratingText |-> None,
   rating |-> 0, feedbackText |-> None, feedbackId |-> "",
   result |-> NoResult,
   \* history of the operation, read by the properties only
   valid |-> FALSE, outcomes |-> <<>>, trace |-> <<>>, created |-> {}, storeErrs |-> 0,
   nres |-> 0, msgIds |-> <<>>, wrote |-> -1, appended |-> <<>>, ops |-> 0,
   received |-> None, again |-> None, errors |-> <<>>,
   replies |-> <<>>, waits |-> <<>>, limit |-> None, readAt |-> -1,
   dbAtCall |-> ""]

\* the database file as the process finds it: empty (sqlite.setup.sql has just
\* created the tables), or as an earlier chat turn and a feedback on its reply
\* left it
EmptyStore == [conversations |-> [c \in {} |-> 0], messages |-> <<>>, feedback |-> <<>>]

UsedStore ==
  [conversations |->
     [c \in {"c1"} |-> [id |-> "c1", user_id |-> None, started_at |-> 0,
                        last_message_at |-> 0, context |-> "{}", is_active |-> 1]],
   messages |-> <<
     [id |-> "m1", conversation_id |-> "c1", role |-> "user", content |-> "hi",
      timestamp |-> 0, rating |-> None, metadata |-> JsonStringify(DefaultMetadata)],
     [id |-> "m2", conversation_id |-> "c1", role |-> "assistant",
      content |-> "I hear you", timestamp |-> 0, rating |-> Some(4),
      metadata |-> JsonStringify(GroqMetadata)] >>,
   feedback |-> <<
     [id |-> "f1", message_id |-> "m2", rating |-> 4, feedback_text |-> None,
      created_at |-> 0, user_id |-> None] >>]

InitStores == {EmptyStore, UsedStore}

Init ==
  /\ \E s \in InitStores :
       /\ conversations = s.conversations
       /\ messages = s.messages
       /\ feedback = s.feedback
  /\ now = 0
  /\ task = [p \in Procs |-> IdleTask]
  /\ db = ReadyDb

(***************************************************************************)
(* Constraints of the schema                                               *)
(***************************************************************************)
\* mutant: foreign keys are not enforced
FkConversation_off(cid) == TRUE

\* FOREIGN KEY (conversation_id) REFERENCES conversations(id), foreign_keys = ON
FkConversation(cid) == ~db.foreign_keys \/ cid \in DOMAIN conversations

\* FOREIGN KEY (user_id) REFERENCES users(id); a NULL user_id passes
FkUser(uid) == ~db.foreign_keys \/ uid = None \/ The(uid) \in Users

\* CHECK (role IN ('user', 'assistant'))
CheckRole(role) == role \in {"user", "assistant"}

\* mutant: the rating is not checked
CheckRating_off(rating) == TRUE

\* CHECK (rating >= 1 AND rating <= 5)
CheckRating(rating) == rating >= MinRating /\ rating <= MaxRating

\* mutant: feedback may reference any message id
FkMessage_off(mid) == TRUE

\* FOREIGN KEY (message_id) REFERENCES messages(id), foreign_keys = ON
FkMessage(mid) == ~db.foreign_keys \/ mid \in MessageIds

(***************************************************************************)
(* Control flow of the chat handler around the store calls                 *)
(***************************************************************************)
\* the outer catch of router.post('/'): the emergency response
EmergencyResult ==
  [status |-> 500, response |-> EmergencyResponse, model |-> "emergency_fallback",
   source |-> "static_response", confidence |-> "0.7", timestamp |-> now,
   mode |-> "emergency", error |-> "Temporary service disruption"]

\* a store statement of task record t rejects with err: inside the inner try
\* block (the addMessage of the AI response) catch (groqError) takes it, anywhere
\* else in the handler the outer catch does; in router.post('/feedback') its
\* catch does; a direct caller of the store gets the error
Throw(t, err) ==
  LET u == [t EXCEPT !.err = err, !.storeErrs = @ + 1]
  IN IF t.kind = "chat" /\ t.site = "groq"
     THEN [u EXCEPT !.pc = "catch"]
     ELSE IF t.kind = "chat"
     THEN [u EXCEPT !.pc = "done", !.result = EmergencyResult, !.nres = @ + 1,
                    !.trace = Append(@, "EMERGENCY")]
     ELSE IF t.kind = "feedback"
     THEN [u EXCEPT !.pc = "done", !.nres = @ + 1,
                    !.result = [status |-> 500, error |-> "Failed to record feedback"]]
     ELSE [u EXCEPT !.pc = "done", !.result = [status |-> 500, error |-> err],
                    !.nres = @ + 1]

\* a store method of the task record t starts with const db = this.getDB(), run
\* in the caller's step; its first statement is the step at position pc
Enter(t, pc) ==
  IF getDBThrows THEN Throw(t, NotInitializedError) ELSE [t EXCEPT !.pc = pc]

\* sqliteService.addMessage(conversationId, role, content, metadata) is entered
BeginAddMessage(t, site, role, content, metadata) ==
  Enter([t EXCEPT !.site = site, !.role = role,
                  !.content = content, !.metadata = JsonStringify(metadata)],
        "msg_insert")

\* mutant: the provider is called before the user message is stored
StoreUserMessage_late(t) ==
  [t EXCEPT !.pc = "provider", !.attempt = 1,
            !.trace = @ \o <<"CONV_RESOLVED", "PROMPT_BUILT">>]

\* the handler after conversationId is known: store the user message
StoreUserMessage(t) ==
  BeginAddMessage([t EXCEPT !.trace = Append(@, "CONV_RESOLVED")],
                  "user", "user", t.message, DefaultMetadata)


(***************************************************************************)
(* router.post('/')                                                        *)
(***************************************************************************)
\* mutant: a conversation is created whatever the caller supplied
NeedsNewConversation_always(conversation_id) == TRUE

\* if (!conversationId): the handler creates a conversation
NeedsNewConversation(conversation_id) == ~Truthy(conversation_id)

\* a request arrives: validation, then the handler up to its first await
SubmitChat(p, message, conversation_id, user_id) ==
  /\ task[p].pc = "idle"
  /\ LET t0 == [IdleTask EXCEPT !.kind = "chat", !.dbAtCall = DbPhase, !.conversation_id = conversation_id,
                                !.user_id = user_id, !.valid = ValidMessage(message),
                                !.received = message]
     IN IF ~ValidMessage(message)
        THEN task' = [task EXCEPT ![p] =
               [t0 EXCEPT !.pc = "done", !.nres = 1,
                          !.result = [status |-> 400, error |-> "Invalid input"]]]
        ELSE LET t1 == [t0 EXCEPT !.message = Trim(The(message)),
                                  !.trace = <<"START">>]
             IN IF NeedsNewConversation(conversation_id)
                THEN task' = [task EXCEPT ![p] = Enter(t1, "create_insert")]
                ELSE task' = [task EXCEPT ![p] =
                       StoreUserMessage([t1 EXCEPT !.conversationId = The(conversation_id)])]
  /\ UNCHANGED <<conversations, messages, feedback, now, db>>

(***************************************************************************)
(* SQLiteService called directly                                           *)
(***************************************************************************)
CallCreateConversation(p, userId) ==
  /\ task[p].pc = "idle"
  /\ task' = [task EXCEPT ![p] =
       Enter([task[p] EXCEPT !.kind = "create", !.user_id = userId,
                             !.dbAtCall = DbPhase],
             "create_insert")]
  /\ UNCHANGED <<conversations, messages, feedback, now, db>>

CallAddMessage(p, conversationId, role, content) ==
  /\ task[p].pc = "idle"
  /\ task' = [task EXCEPT ![p] =
       BeginAddMessage([task[p] EXCEPT !.kind = "append", !.dbAtCall = DbPhase,
                                        !.conversationId = conversationId],
                       "direct", role, content, DefaultMetadata)]
  /\ UNCHANGED <<conversations, messages, feedback, now, db>>

(***************************************************************************)
(* SQLiteService.createConversation                                        *)
(***************************************************************************)
\* mutant: the insert also deactivates the rows that were there
AddRow_touch(f, k, v) ==
  [x \in DOMAIN f \cup {k} |-> IF x = k THEN v ELSE [f[x] EXCEPT !.is_active = 0]]

AddRow(f, k, v) == [x \in DOMAIN f \cup {k} |-> IF x = k THEN v ELSE f[x]]

\* INSERT INTO conversations; fault: the store rejects the statement
CreateConversationInsert(p, conversationId, fault, clock) ==
  /\ task[p].pc = "create_insert"
  /\ LET t == task[p]
         userId == OrNull(t.user_id)
     IN IF Fails(fault)
        THEN /\ task' = [task EXCEPT ![p] = Throw(t, "SQLITE_ERROR")]
             /\ UNCHANGED <<conversations, now>>
        ELSE IF conversationId \in DOMAIN conversations
        THEN /\ task' = [task EXCEPT ![p] = Throw(t, "SQLITE_CONSTRAINT_PRIMARYKEY")]
             /\ UNCHANGED <<conversations, now>>
        ELSE IF ~FkUser(userId)
        THEN /\ task' = [task EXCEPT ![p] = Throw(t, "SQLITE_CONSTRAINT_FOREIGNKEY")]
             /\ UNCHANGED <<conversations, now>>
        ELSE /\ now' = clock
             /\ conversations' = AddRow(conversations, conversationId,
                  [id |-> conversationId, user_id |-> userId, started_at |-> clock,
                   last_message_at |-> clock, context |-> "{}", is_active |-> 1])
             /\ task' = [task EXCEPT ![p] =
                  [t EXCEPT !.pc = "create_select", !.conversationId = conversationId,
                            !.created = @ \cup {conversationId}]]
  /\ UNCHANGED <<messages, feedback, db>>

\* SELECT * FROM conversations WHERE id = ?, and the return to the caller
CreateConversationSelect(p, fault) ==
  /\ task[p].pc = "create_select"
  /\ LET t == task[p]
         conversation == conversations[t.conversationId]
     IN IF Fails(fault)
        THEN task' = [task EXCEPT ![p] = Throw(t, "SQLITE_ERROR")]
        ELSE IF t.kind = "chat"
        THEN task' = [task EXCEPT ![p] =
               StoreUserMessage([t EXCEPT !.conversationId = conversation.id])]
        ELSE task' = [task EXCEPT ![p] =
               [t EXCEPT !.pc = "done", !.nres = @ + 1,
                         !.result = [status |-> 200, row |-> conversation]]]
  /\ UNCHANGED <<conversations, messages, feedback, now, db>>


(***************************************************************************)
(* SQLiteService.addMessage                                                *)
(***************************************************************************)
\* the handler's code after addMessage returned, by call site
AfterAddMessage(t) ==
  IF t.site = "user"
  THEN \* enhancePrompt, then generateResponse starts its first attempt
       [t EXCEPT !.pc = "provider", !.attempt = 1,
                 !.trace = @ \o <<"USER_MSG_STORED", "PROMPT_BUILT">>]
  ELSE IF t.site = "groq"
  THEN [t EXCEPT !.pc = "done", !.nres = @ + 1,
                 !.trace = @ \o <<"REPLY_STORED", "DONE">>,
                 !.result = [status |-> 200, response |-> t.reply,
                             model |-> "groq_llama2-70b", source |-> "groq_api",
                             confidence |-> "0.95", timestamp |-> now,
                             mode |-> "groq", conversation_id |-> t.conversationId]]
  ELSE IF t.site = "fallback"
  THEN [t EXCEPT !.pc = "done", !.nres = @ + 1,
                 !.trace = @ \o <<"REPLY_STORED", "DONE">>,
                 !.result = [status |-> 200, response |-> t.reply,
                             model |-> "ivor_community_knowledge",
                             source |-> "qtipoc_local_knowledge",
                             confidence |-> "0.85", timestamp |-> now,
                             mode |-> "fallback", conversation_id |-> t.conversationId]]
  ELSE [t EXCEPT !.pc = "done", !.nres = @ + 1,
                 !.appended = Append(@, [conversation_id |-> t.conversationId,
                                         role |-> t.role, content |-> t.content]),
                 !.result = [status |-> 200,
                             row |-> CHOOSE m \in {messages[i] : i \in 1..Len(messages)} :
                                       m.id = t.messageId]]

\* INSERT INTO messages (id, conversation_id, role, content, metadata)
AddMessageInsert(p, messageId, fault, clock) ==
  /\ task[p].pc = "msg_insert"
  /\ LET t == task[p]
     IN IF Fails(fault)
        THEN /\ task' = [task EXCEPT ![p] = Throw(t, "SQLITE_ERROR")]
             /\ UNCHANGED <<messages, now>>
        ELSE IF ~CheckRole(t.role)
        THEN /\ task' = [task EXCEPT ![p] = Throw(t, "SQLITE_CONSTRAINT_CHECK")]
             /\ UNCHANGED <<messages, now>>
        ELSE IF messageId \in MessageIds
        THEN /\ task' = [task EXCEPT ![p] = Throw(t, "SQLITE_CONSTRAINT_PRIMARYKEY")]
             /\ UNCHANGED <<messages, now>>
        ELSE IF ~FkConversation(t.conversationId)
        THEN /\ task' = [task EXCEPT ![p] = Throw(t, "SQLITE_CONSTRAINT_FOREIGNKEY")]
             /\ UNCHANGED <<messages, now>>
        ELSE /\ now' = clock
             /\ messages' = Append(messages,
                  [id |-> messageId, conversation_id |-> t.conversationId,
                   role |-> t.role, content |-> t.content, timestamp |-> clock,
                   rating |-> None, metadata |-> t.metadata])
             /\ task' = [task EXCEPT ![p] =
                  [t EXCEPT !.pc = "msg_update", !.messageId = messageId,
                            !.msgIds = Append(@, messageId)]]
  /\ UNCHANGED <<conversations, feedback, db>>

\* mutant: the update leaves the row as it is
SetLastMessageAt_never(row, clock) == row

\* SET last_message_at = datetime('now') on one row of conversations
SetLastMessageAt(row, clock) == [row EXCEPT !.last_message_at = clock]

\* mutant: a failed update takes back the row that addMessage has inserted
AddMessageUpdate_rollback(p, fault, clock) ==
  /\ task[p].pc = "msg_update"
  /\ LET t == task[p]
     IN IF Fails(fault)
        THEN /\ task' = [task EXCEPT ![p] = Throw(t, "SQLITE_ERROR")]
             /\ messages' = SelectSeq(messages, LAMBDA m : m.id # t.messageId)
             /\ UNCHANGED <<conversations, now>>
        ELSE /\ now' = clock
             /\ conversations' =
                  [c \in DOMAIN conversations |->
                     IF c = t.conversationId
                     THEN [conversations[c] EXCEPT !.last_message_at = clock]
                     ELSE conversations[c]]
             /\ task' = [task EXCEPT ![p] = [t EXCEPT !.pc = "msg_select",
                                                      !.wrote = clock]]
             /\ UNCHANGED messages
  /\ UNCHANGED <<feedback, db>>

\* UPDATE conversations SET last_message_at = datetime('now') WHERE id = ?
AddMessageUpdate(p, fault, clock) ==
  /\ task[p].pc = "msg_update"
  /\ LET t == task[p]
     IN IF Fails(fault)
        THEN /\ task' = [task EXCEPT ![p] = Throw(t, "SQLITE_ERROR")]
             /\ UNCHANGED <<conversations, now>>
        ELSE /\ now' = clock
             /\ conversations' =
                  [c \in DOMAIN conversations |->
                     IF c = t.conversationId
                     THEN SetLastMessageAt(conversations[c], clock)
                     ELSE conversations[c]]
             /\ task' = [task EXCEPT ![p] = [t EXCEPT !.pc = "msg_select",
                                                      !.wrote = clock]]
  /\ UNCHANGED <<messages, feedback, db>>

\* SELECT * FROM messages WHERE id = ?, and the return to the caller
AddMessageSelect(p, fault) ==
  /\ task[p].pc = "msg_select"
  /\ LET t == task[p]
     IN IF Fails(fault)
        THEN task' = [task EXCEPT ![p] = Throw(t, "SQLITE_ERROR")]
        ELSE task' = [task EXCEPT ![p] = AfterAddMessage(t)]
  /\ UNCHANGED <<conversations, messages, feedback, now, db>>

(***************************************************************************)
(* GroqService.generateResponse, one attempt per step                      *)
(***************************************************************************)
\* mutant: a failed attempt is not counted, the loop tries again every time
ProviderAttempt_uncounted(p, out) ==
  /\ task[p].pc = "provider"
  /\ LET t == task[p]
     IN IF ~AttemptFails(out)
        THEN LET aiResponse == Trim(out.text)
                 ivorResponse == processResponse(aiResponse, t.message)
             IN task' = [task EXCEPT ![p] =
                  BeginAddMessage(
                    [t EXCEPT !.reply = ivorResponse,
                              !.outcomes = Append(@, "ok"),
                              !.trace = Append(@, "PROVIDER_OK")],
                    "groq", "assistant", ivorResponse, GroqMetadata)]
        ELSE task' = [task EXCEPT ![p] = [t EXCEPT !.lastError = AttemptError(out)]]
  /\ UNCHANGED <<conversations, messages, feedback, now, db>>

ProviderAttempt(p, out) ==
  /\ task[p].pc = "provider"
  /\ LET t == task[p]
     IN IF ~AttemptFails(out)
        THEN \* return response.trim(); processResponse; addMessage(assistant)
             LET aiResponse == Trim(out.text)
                 ivorResponse == processResponse(aiResponse, t.message)
             IN task' = [task EXCEPT ![p] =
                  BeginAddMessage(
                    [t EXCEPT !.reply = ivorResponse,
                              !.outcomes = Append(@, "ok"),
                              !.trace = Append(@, "PROVIDER_OK")],
                    "groq", "assistant", ivorResponse, GroqMetadata)]
        ELSE LET u == [t EXCEPT !.lastError = SetLastError(@, AttemptError(out)),
                                !.outcomes = Append(@, "fail"),
                                !.errors = Append(@, AttemptError(out))]
             IN IF RetryAgain(t.attempt)
                THEN \* await this.delay(this.retryDelay * attempt)
                     task' = [task EXCEPT ![p] = [u EXCEPT !.attempt = @ + 1]]
                ELSE task' = [task EXCEPT ![p] =
                       [u EXCEPT !.pc = "catch", !.site = "groq",
                                 !.err = ExhaustedError(u.lastError),
                                 !.trace = Append(@, "PROVIDER_FAILED")]]
  /\ UNCHANGED <<conversations, messages, feedback, now, db>>

\* catch (groqError): getFallbackResponse, then addMessage of the fallback
InnerCatch(p, rnd) ==
  /\ task[p].pc = "catch"
  /\ LET t == task[p]
         fallbackResponse == getFallbackResponse(t.message, rnd)
     IN task' = [task EXCEPT ![p] =
          BeginAddMessage([t EXCEPT !.reply = fallbackResponse],
                          "fallback", "assistant", fallbackResponse, FallbackMetadata)]
  /\ UNCHANGED <<conversations, messages, feedback, now, db>>

(***************************************************************************)
(* router.post('/feedback') and SQLiteService.addFeedback                  *)
(***************************************************************************)
\* a feedback request arrives: validation, then the handler up to its await
SubmitFeedback(p, message_id, rating, feedback_text, user_id) ==
  /\ task[p].pc = "idle"
  /\ LET valid == message_id # None /\ ValidRating(rating)
         t0 == [IdleTask EXCEPT !.kind = "feedback", !.dbAtCall = DbPhase, !.valid = valid,
                                !.message_id = message_id, !.ratingText = rating]
     IN IF ~valid
        THEN task' = [task EXCEPT ![p] =
               [t0 EXCEPT !.pc = "done", !.nres = 1,
                          !.result = [status |-> 400, error |-> "Invalid input"]]]
        ELSE task' = [task EXCEPT ![p] =
               Enter([t0 EXCEPT !.messageId = The(message_id),
                                !.rating = ToInt(The(rating)),
                                !.feedbackText = feedback_text, !.user_id = user_id],
                     "fb_insert")]
  /\ UNCHANGED <<conversations, messages, feedback, now, db>>

\* sqliteService.addFeedback called directly
CallAddFeedback(p, messageId, rating, userId) ==
  /\ task[p].pc = "idle"
  /\ task' = [task EXCEPT ![p] =
       Enter([IdleTask EXCEPT !.kind = "addFeedback", !.valid = TRUE,
                              !.messageId = messageId, !.rating = rating,
                              !.user_id = userId, !.dbAtCall = DbPhase],
             "fb_insert")]
  /\ UNCHANGED <<conversations, messages, feedback, now, db>>

\* INSERT INTO feedback (id, message_id, rating, feedback_text, user_id)
AddFeedbackInsert(p, feedbackId, fault, clock) ==
  /\ task[p].pc = "fb_insert"
  /\ LET t == task[p]
         userId == OrNull(t.user_id)
     IN IF Fails(fault)
        THEN /\ task' = [task EXCEPT ![p] = Throw(t, "SQLITE_ERROR")]
             /\ UNCHANGED <<feedback, now>>
        ELSE IF ~CheckRating(t.rating)
        THEN /\ task' = [task EXCEPT ![p] = Throw(t, "SQLITE_CONSTRAINT_CHECK")]
             /\ UNCHANGED <<feedback, now>>
        ELSE IF feedbackId \in FeedbackIds
        THEN /\ task' = [task EXCEPT ![p] = Throw(t, "SQLITE_CONSTRAINT_PRIMARYKEY")]
             /\ UNCHANGED <<feedback, now>>
        ELSE IF ~FkMessage(t.messageId) \/ ~FkUser(userId)
        THEN /\ task' = [task EXCEPT ![p] = Throw(t, "SQLITE_CONSTRAINT_FOREIGNKEY")]
             /\ UNCHANGED <<feedback, now>>
        ELSE /\ now' = clock
             /\ feedback' = Append(feedback,
                  [id |-> feedbackId, message_id |-> t.messageId, rating |-> t.rating,
                   feedback_text |-> OrNull(t.feedbackText), created_at |-> clock,
                   user_id |-> userId])
             /\ task' = [task EXCEPT ![p] =
                  [t EXCEPT !.pc = "fb_update", !.feedbackId = feedbackId]]
  /\ UNCHANGED <<conversations, messages, db>>

\* SET rating = ? on one row of messages
SetRating(m, rating) == [m EXCEPT !.rating = Some(rating)]

\* UPDATE messages SET rating = ? WHERE id = ?, and the return to the caller
AddFeedbackUpdate(p, fault) ==
  /\ task[p].pc = "fb_update"
  /\ LET t == task[p]
     IN IF Fails(fault)
        THEN /\ task' = [task EXCEPT ![p] = Throw(t, "SQLITE_ERROR")]
             /\ UNCHANGED messages
        ELSE /\ messages' =
                  [i \in 1..Len(messages) |->
                     IF messages[i].id = t.messageId
                     THEN SetRating(messages[i], t.rating)
                     ELSE messages[i]]
             /\ task' = [task EXCEPT ![p] =
                  [t EXCEPT !.pc = "done", !.nres = @ + 1,
                            !.result =
                              IF t.kind = "feedback"
                              THEN [status |-> 200, success |-> TRUE,
                                    message |-> "Feedback recorded successfully"]
                              ELSE [status |-> 200]]]
  /\ UNCHANGED <<conversations, feedback, now, db>>

(***************************************************************************)
(* SQLiteService.getConversationMessages and router.get('/conversations/:id') *)
(***************************************************************************)
\* WHERE conversation_id = ?: the rows of the conversation as the index
\* idx_messages_conversation_id yields them, in rowid (insertion) order
WhereConversation(conversationId) ==
  SelectSeq(messages, LAMBDA m : m.conversation_id = conversationId)

\* mutant: a row is placed before the rows of the same timestamp
InsertByTimestamp_unstable(sorted, m) ==
  LET before == SelectSeq(sorted, LAMBDA x : x.timestamp < m.timestamp)
      after == SelectSeq(sorted, LAMBDA x : x.timestamp >= m.timestamp)
  IN before \o <<m>> \o after

\* one step of the sorter: m goes behind the rows that are not later than it
InsertByTimestamp(sorted, m) ==
  LET before == SelectSeq(sorted, LAMBDA x : x.timestamp <= m.timestamp)
      after == SelectSeq(sorted, LAMBDA x : x.timestamp > m.timestamp)
  IN before \o <<m>> \o after

\* ORDER BY timestamp ASC over the rows in the order the index yields them
RECURSIVE OrderByTimestamp(_)
OrderByTimestamp(rows) ==
  IF Len(rows) = 0 THEN <<>>
  ELSE InsertByTimestamp(OrderByTimestamp(SubSeq(rows, 1, Len(rows) - 1)),
                         rows[Len(rows)])

\* mutant: the query is not restricted to the conversation
getConversationMessages_all(conversationId) == OrderByTimestamp(messages)

getConversationMessages(conversationId) ==
  OrderByTimestamp(WhereConversation(conversationId))

\* messages.map(msg => ({ id, role, content, timestamp, rating, metadata }))
MapMessages(rows) ==
  [i \in 1..Len(rows) |->
     [id |-> rows[i].id, role |-> rows[i].role, content |-> rows[i].content,
      timestamp |-> rows[i].timestamp, rating |-> rows[i].rating,
      metadata |-> JsonParse(rows[i].metadata)]]

\* GET /conversations/:id: one read of the store, then the response
GetConversation(p, id, fault) ==
  /\ task[p].pc = "idle"
  /\ LET t == [task[p] EXCEPT !.kind = "history", !.dbAtCall = DbPhase, !.conversationId = id,
                              !.valid = TRUE, !.pc = "done", !.nres = 1]
     IN IF Fails(fault)
        THEN task' = [task EXCEPT ![p] =
               [t EXCEPT !.err = StoreError, !.storeErrs = 1,
                         !.result = [status |-> 500,
                                     error |-> "Failed to retrieve conversation"]]]
        ELSE task' = [task EXCEPT ![p] =
               [t EXCEPT !.result =
                  [status |-> 200, conversation_id |-> id,
                   messages |-> MapMessages(getConversationMessages(id)),
                   state |-> "active"]]]
  /\ UNCHANGED <<conversations, messages, feedback, now, db>>

\* sqliteService.getConversationMessages called directly
CallGetConversationMessages(p, id, fault) ==
  /\ task[p].pc = "idle"
  /\ LET t == [task[p] EXCEPT !.kind = "getMessages", !.dbAtCall = DbPhase, !.conversationId = id,
                              !.valid = TRUE, !.pc = "done", !.nres = 1]
     IN IF Fails(fault)
        THEN task' = [task EXCEPT ![p] =
               [t EXCEPT !.err = StoreError, !.storeErrs = 1,
                         !.result = [status |-> 500, error |-> StoreError]]]
        ELSE task' = [task EXCEPT ![p] =
               [t EXCEPT !.result = [status |-> 200,
                                     rows |-> getConversationMessages(id)]]]
  /\ UNCHANGED <<conversations, messages, feedback, now, db>>

(***************************************************************************)
(* Environment                                                             *)
(***************************************************************************)
\* what datetime('now') / CURRENT_TIMESTAMP can evaluate to in a statement: the
\* clock never runs backwards, and only these evaluations observe it
ClockReadings == now..MaxTime

DirectConvIds == {"c1", "zz"}
DirectRoles == {"user", "assistant", "system"}
DirectContents == {"x"}

\* the steps of the tasks P, with requests, store faults and provider outcomes
\* drawn from the given sets
Steps(P, M, C, U, D, R, F, O) ==
  \/ \E p \in P, m \in M, c \in C, u \in U : SubmitChat(p, m, c, u)
  \/ \E p \in P, u \in U : CallCreateConversation(p, u)
  \/ \E p \in P, c \in D, r \in R, x \in DirectContents :
       CallAddMessage(p, c, r, x)
  \/ \E p \in P, id \in generateConvIds, fault \in F, clock \in ClockReadings :
       CreateConversationInsert(p, id, fault, clock)
  \/ \E p \in P, fault \in F : CreateConversationSelect(p, fault)
  \/ \E p \in P, id \in generateMsgIds, fault \in F, clock \in ClockReadings :
       AddMessageInsert(p, id, fault, clock)
  \/ \E p \in P, fault \in F, clock \in ClockReadings : AddMessageUpdate(p, fault, clock)
  \/ \E p \in P, fault \in F : AddMessageSelect(p, fault)
  \/ \E p \in P, out \in O : ProviderAttempt(p, out)
  \/ \E p \in P, rnd \in 1..Len(fallbackResponses) : InnerCatch(p, rnd)

DirectMessageIds == {"m1", "m2", "zz"}
DirectRatings == {0, 3, 6}

\* the steps of feedback requests and of direct addFeedback calls of the tasks P
FeedbackSteps(P, U, F) ==
  \/ \E p \in P, m \in MessageIdInputs, r \in RatingInputs,
        x \in FeedbackTextInputs, u \in U :
       SubmitFeedback(p, m, r, x, u)
  \/ \E p \in P, m \in DirectMessageIds, r \in DirectRatings, u \in U :
       CallAddFeedback(p, m, r, u)
  \/ \E p \in P, id \in generateFeedbackIds, fault \in F, clock \in ClockReadings :
       AddFeedbackInsert(p, id, fault, clock)
  \/ \E p \in P, fault \in F : AddFeedbackUpdate(p, fault)

\* the reads of the message history by the tasks P
ReadSteps(P, D, F) ==
  \/ \E p \in P, id \in D, fault \in F : GetConversation(p, id, fault)
  \/ \E p \in P, id \in D, fault \in F : CallGetConversationMessages(p, id, fault)

\* one operation, with every request, store fault and provider outcome
Next ==
  \/ Steps({1}, MessageInputs, ConvIdInputs, UserIdInputs, DirectConvIds, DirectRoles,
           BOOLEAN, ProviderOutcomes)
  \/ FeedbackSteps({1}, UserIdInputs, BOOLEAN)
  \/ ReadSteps({1}, DirectConvIds, BOOLEAN)

Spec == Init /\ [][Next]_vars


\* two operations running concurrently, over fewer requests and outcomes
ConcMessageInputs == {Some("housing help")}
ConcConvIdInputs == {None, Some("c1")}
ConcUserIdInputs == {None}
ConcProviderOutcomes == {[kind |-> "content", text |-> "I hear you"]}

NextConc ==
  Steps(Procs, ConcMessageInputs, ConcConvIdInputs, ConcUserIdInputs, {"c1"},
        {"user"}, {FALSE}, ConcProviderOutcomes)

SpecConc == Init /\ [][NextConc]_vars

\* a caller of the store issues its next call when the last one has returned;
\* what it has created and appended so far is remembered for the properties
Return(p) ==
  /\ task[p].pc = "done"
  /\ task[p].ops < MaxOps
  /\ task' = [task EXCEPT ![p] =
       [IdleTask EXCEPT !.ops = task[p].ops + 1, !.appended = task[p].appended,
                        !.created = task[p].created]]
  /\ UNCHANGED <<conversations, messages, feedback, now, db>>

StoreConvIds == {"c1", "c2"}

\* one caller making a sequence of calls: createConversation, addMessage,
\* getConversationMessages and GET /conversations/:id, none failing in the store
NextStore ==
  \/ \E u \in ConcUserIdInputs : CallCreateConversation(1, u)
  \/ \E c \in StoreConvIds, r \in {"user", "assistant"}, x \in DirectContents :
       CallAddMessage(1, c, r, x)
  \/ \E id \in generateConvIds, clock \in ClockReadings :
       CreateConversationInsert(1, id, FALSE, clock)
  \/ CreateConversationSelect(1, FALSE)
  \/ \E id \in generateMsgIds, clock \in ClockReadings :
       AddMessageInsert(1, id, FALSE, clock)
  \/ \E clock \in ClockReadings : AddMessageUpdate(1, FALSE, clock)
  \/ AddMessageSelect(1, FALSE)
  \/ \E id \in StoreConvIds : CallGetConversationMessages(1, id, FALSE)
  \/ \E id \in StoreConvIds : GetConversation(1, id, FALSE)
  \/ Return(1)

SpecStore == Init /\ [][NextStore]_vars

\* chat requests with messages at the limits of isLength({ min: 1, max: 2000 }),
\* over fewer conversations, owners and provider outcomes, the store not failing
LimitMessageInputs ==
  {None, Some(""), Some("   "), Some(" hi "), Some(Repeat("a", MaxMessageLength)),
   Some(Repeat("a", MaxMessageLength + 1)),
   Some(" " \o Repeat("a", MaxMessageLength))}
LimitProviderOutcomes ==
  {[kind |-> "content", text |-> "I hear you"], [kind |-> "reject", text |-> "timeout"]}

NextLimits ==
  Steps({1}, LimitMessageInputs, ConcConvIdInputs, ConcUserIdInputs, {"c1"},
        {"user"}, {FALSE}, LimitProviderOutcomes)

SpecLimits == Init /\ [][NextLimits]_vars

\* every call that is pending returns or fails in the end: the provider call
\* and the retry delay resolve, each statement of the store calls back
LiveMessageInputs == {None, Some("hi")}

NextLive ==
  Steps({1}, LiveMessageInputs, ConcConvIdInputs, ConcUserIdInputs, {"zz"},
        {"user"}, BOOLEAN, ProviderOutcomes)

SpecFair == Init /\ [][NextLive]_vars /\ WF_vars(NextLive)

(***************************************************************************)
(* app.get('/api/community/events') and SQLiteService.getUpcomingEvents    *)
(***************************************************************************)
\* the events table as the process finds it (the code never writes it):
\* rows in insertion order, dates all over the clock's range, some inactive
Events ==
  [i \in 1..MaxEvents |->
     [id |-> "event_" \o ToString(i), event_date |-> (i * 5) % 4,
      is_active |-> IF i % 6 = 0 THEN 0 ELSE 1]]

\* parseInt(string): leading blanks, a sign, then the longest run of digits;
\* NaN (None here) when there is no digit. No input starts with 0x.
LeadingDigits(s) ==
  LET stops == {i \in 1..Len(s) : ~IsDigit(Char(s, i))}
  IN IF stops = {} THEN s ELSE SubSeq(s, 1, Min(stops) - 1)

parseInt(string) ==
  LET text == TrimStart(string)
      digits == LeadingDigits(Unsigned(text))
  IN IF digits = "" THEN None
     ELSE IF HasSign(text) /\ Char(text, 1) = "-" THEN Some(0 - ParseDigits(digits))
     ELSE Some(ParseDigits(digits))

\* one step of the sorter: e goes behind the rows that are not later than it
InsertByEventDate(sorted, e) ==
  LET before == SelectSeq(sorted, LAMBDA x : x.event_date <= e.event_date)
      after == SelectSeq(sorted, LAMBDA x : x.event_date > e.event_date)
  IN before \o <<e>> \o after

\* ORDER BY event_date ASC
RECURSIVE OrderByEventDate(_)
OrderByEventDate(rows) ==
  IF Len(rows) = 0 THEN <<>>
  ELSE InsertByEventDate(OrderByEventDate(SubSeq(rows, 1, Len(rows) - 1)),
                         rows[Len(rows)])

\* LIMIT n: the first n rows; a negative n is no limit at all
Limit(rows, n) ==
  IF n < 0 THEN rows ELSE SubSeq(rows, 1, IF n < Len(rows) THEN n ELSE Len(rows))

\* SELECT * FROM events WHERE is_active = 1 AND event_date >= datetime('now')
\* ORDER BY event_date ASC LIMIT ?
getUpcomingEvents(limit, clock) ==
  Limit(OrderByEventDate(
          SelectSeq(Events, LAMBDA e : e.is_active = 1 /\ e.event_date >= clock)),
        limit)

\* the values of the query parameter limit, and of the argument of a direct call
LimitQueryInputs ==
  {None, Some(""), Some("0"), Some("3"), Some("12"), Some(" 2"), Some("3abc"),
   Some("-1"), Some("abc")}
LimitInputs == {None, Some(0), Some(3), Some(-1)}

\* the statement of getUpcomingEvents for the task record t, limit being the
\* parameter bound to LIMIT ? (None is NaN, which is bound as NULL: datatype
\* mismatch); failed is what the caller makes of a rejection
SelectEvents(t, limit, fault, clock, failed) ==
  IF Fails(fault) \/ limit = None
  THEN [t EXCEPT !.err = IF Fails(fault) THEN StoreError ELSE "SQLITE_MISMATCH",
                 !.storeErrs = 1, !.result = failed]
  ELSE [t EXCEPT !.readAt = clock,
                 !.result = [status |-> 200, success |-> TRUE,
                             events |-> getUpcomingEvents(The(limit), clock),
                             count |-> Len(getUpcomingEvents(The(limit), clock))]]

\* GET /api/community/events?limit=...
GetEvents(p, limit, fault, clock) ==
  /\ task[p].pc = "idle"
  /\ LET arg == IF Truthy(limit) THEN parseInt(The(limit)) ELSE Some(10)
         t == [task[p] EXCEPT !.kind = "events", !.dbAtCall = DbPhase, !.pc = "done", !.nres = 1,
                              !.received = limit, !.limit = arg]
     IN task' = [task EXCEPT ![p] =
          SelectEvents(t, arg, fault, clock,
                       [status |-> 500, success |-> FALSE,
                        error |-> "Failed to fetch events", events |-> <<>>])]
  /\ now' = IF Fails(fault) \/ (Truthy(limit) /\ parseInt(The(limit)) = None) THEN now ELSE clock
  /\ UNCHANGED <<conversations, messages, feedback, db>>

\* sqliteService.getUpcomingEvents(limit = 10) called directly
CallGetUpcomingEvents(p, limit, fault, clock) ==
  /\ task[p].pc = "idle"
  /\ LET arg == IF limit = None THEN Some(10) ELSE limit
         t == [task[p] EXCEPT !.kind = "getUpcomingEvents", !.dbAtCall = DbPhase, !.pc = "done", !.nres = 1,
                              !.limit = arg]
     IN task' = [task EXCEPT ![p] =
          SelectEvents(t, arg, fault, clock, [status |-> 500, error |-> StoreError])]
  /\ now' = IF Fails(fault) THEN now ELSE clock
  /\ UNCHANGED <<conversations, messages, feedback, db>>

\* one caller asking for the events again and again
NextEvents ==
  \/ \E limit \in LimitQueryInputs, fault \in BOOLEAN, clock \in ClockReadings :
       GetEvents(1, limit, fault, clock)
  \/ \E limit \in LimitInputs, fault \in BOOLEAN, clock \in ClockReadings :
       CallGetUpcomingEvents(1, limit, fault, clock)
  \/ Return(1)

SpecEvents == Init /\ [][NextEvents]_vars

\* two feedback operations running concurrently on the messages of the store,
\* every statement able to fail
NextFeedbackConc == FeedbackSteps(Procs, ConcUserIdInputs, BOOLEAN)

SpecFeedbackConc == Init /\ [][NextFeedbackConc]_vars

(***************************************************************************)
(* IvorPersona called directly                                             *)
(***************************************************************************)
\* the messages and the replies of the provider the persona is called with:
\* words that are, or are not, topics and keywords of its tables, alone and
\* in pairs in both orders
PersonaWords ==
  {"hi", "help", "HOUSING", "housing", "mental health", "benefits", "job",
   "therapy", "Alone", "rights", "trans", "discrimination"}
PersonaMessages ==
  {"", "I'm feeling really alone and need housing help"}
    \cup PersonaWords
    \cup {a \o " " \o b : a \in PersonaWords, b \in PersonaWords}
PersonaReplies == {"I hear you", "I'm here", "You matter", "i hear you", "You and I"}

CallGetFallbackResponse(p, userMessage, rnd) ==
  /\ task[p].pc = "idle"
  /\ task' = [task EXCEPT ![p] =
       [task[p] EXCEPT !.kind = "getFallbackResponse", !.pc = "done", !.nres = 1,
                       !.message = userMessage,
                       !.reply = getFallbackResponse(userMessage, rnd)]]
  /\ UNCHANGED <<conversations, messages, feedback, now, db>>

CallProcessResponse(p, aiResponse, originalMessage) ==
  /\ task[p].pc = "idle"
  /\ task' = [task EXCEPT ![p] =
       [task[p] EXCEPT !.kind = "processResponse", !.pc = "done", !.nres = 1,
                       !.content = aiResponse, !.message = originalMessage,
                       !.reply = processResponse(aiResponse, originalMessage)]]
  /\ UNCHANGED <<conversations, messages, feedback, now, db>>

\* mutant: the second call works on the text the first call has left
CallProcessResponseAgain_accumulating(p) ==
  /\ task[p].kind = "processResponse" /\ task[p].pc = "done"
  /\ task[p].again = None
  /\ task' = [task EXCEPT ![p] =
       [task[p] EXCEPT !.again = Some(processResponse(task[p].reply, task[p].message))]]
  /\ UNCHANGED <<conversations, messages, feedback, now, db>>

\* processResponse is called once more with the arguments of the last call
CallProcessResponseAgain(p) ==
  /\ task[p].kind = "processResponse" /\ task[p].pc = "done"
  /\ task[p].again = None
  /\ task' = [task EXCEPT ![p] =
       [task[p] EXCEPT !.again = Some(processResponse(task[p].content, task[p].message))]]
  /\ UNCHANGED <<conversations, messages, feedback, now, db>>

NextPersona ==
  \/ \E m \in PersonaMessages, rnd \in 1..Len(fallbackResponses) :
       CallGetFallbackResponse(1, m, rnd)
  \/ \E a \in PersonaReplies, m \in PersonaMessages : CallProcessResponse(1, a, m)
  \/ CallProcessResponseAgain(1)

SpecPersona == Init /\ [][NextPersona]_vars

(***************************************************************************)
(* GroqService called directly: generateResponse and healthCheck           *)
(***************************************************************************)
\* what one call of groq.chat.completions.create can do here: resolve with a
\* content, with an empty one or with none (choices[0]?.message?.content is
\* undefined), or reject
DirectProviderOutcomes ==
  [kind : {"content"}, text : {"OK", "Ok, I am here", "I hear you", " ", ""}]
    \cup {[kind |-> "absent", text |-> ""]}
    \cup [kind : {"reject"}, text : ProviderErrors]

CallGenerateResponse(p) ==
  /\ task[p].pc = "idle"
  /\ task' = [task EXCEPT ![p] =
       [task[p] EXCEPT !.kind = "generateResponse", !.pc = "gen_create",
                       !.attempt = 1]]
  /\ UNCHANGED <<conversations, messages, feedback, now, db>>

\* healthCheck: generateResponse of the canary prompt inside try
CallHealthCheck(p) ==
  /\ task[p].pc = "idle"
  /\ task' = [task EXCEPT ![p] =
       [task[p] EXCEPT !.kind = "healthCheck", !.pc = "gen_create", !.attempt = 1]]
  /\ UNCHANGED <<conversations, messages, feedback, now, db>>

\* await this.groq.chat.completions.create(...) settles, up to the next await
\* or to the end of the call
GenerateAttempt(p, out) ==
  /\ task[p].pc = "gen_create"
  /\ LET t == [task[p] EXCEPT !.replies = Append(@, out)]
     IN IF ~AttemptFails(out)
        THEN LET response == Trim(out.text)
                 u == [t EXCEPT !.outcomes = Append(@, "ok"), !.reply = response,
                                !.pc = "done", !.nres = 1]
             IN IF t.kind = "healthCheck"
                THEN task' = [task EXCEPT ![p] =
                       [u EXCEPT !.result = [returned |-> HealthOk(response)]]]
                ELSE task' = [task EXCEPT ![p] =
                       [u EXCEPT !.result = [returned |-> response]]]
        ELSE LET u == [t EXCEPT !.lastError = SetLastError(@, AttemptError(out)),
                                !.outcomes = Append(@, "fail"),
                                !.errors = Append(@, AttemptError(out))]
             IN IF RetryAgain(t.attempt)
                THEN task' = [task EXCEPT ![p] =
                       [u EXCEPT !.pc = "gen_delay",
                                 !.waits = Append(@, BackoffDelay(t.attempt))]]
                ELSE IF t.kind = "healthCheck"
                THEN task' = [task EXCEPT ![p] =
                       [u EXCEPT !.pc = "done", !.nres = 1,
                                 !.result = [returned |-> FALSE]]]
                ELSE task' = [task EXCEPT ![p] =
                       [u EXCEPT !.pc = "done", !.nres = 1,
                                 !.err = ExhaustedError(u.lastError),
                                 !.result = [threw |-> ExhaustedError(u.lastError)]]]
  /\ UNCHANGED <<conversations, messages, feedback, now, db>>

\* await this.delay(this.retryDelay * attempt) resolves: attempt++
GenerateDelay(p) ==
  /\ task[p].pc = "gen_delay"
  /\ task' = [task EXCEPT ![p] = [task[p] EXCEPT !.pc = "gen_create",
                                                 !.attempt = @ + 1]]
  /\ UNCHANGED <<conversations, messages, feedback, now, db>>

NextProvider ==
  \/ CallGenerateResponse(1)
  \/ CallHealthCheck(1)
  \/ \E out \in DirectProviderOutcomes : GenerateAttempt(1, out)
  \/ GenerateDelay(1)

SpecProvider == Init /\ [][NextProvider]_vars


(***************************************************************************)
(* SQLiteService.initialize, healthCheck and close                         *)
(***************************************************************************)
\* the instance as its constructor leaves it, this.db being null; the database
\* file holds the tables if an earlier run of the process has set it up
InitBoot ==
  /\ \E s \in InitStores, tables \in BOOLEAN :
       /\ conversations = s.conversations
       /\ messages = s.messages
       /\ feedback = s.feedback
       /\ s = UsedStore => tables
       /\ db = [handle |-> "null", foreign_keys |-> FALSE, tables |-> tables,
                initialized |-> FALSE, started |-> FALSE, closed |-> FALSE]
  /\ now = 0
  /\ task = [p \in Procs |-> IdleTask]

\* sqliteService.initialize() is called, once, and not awaited by the router
CallInitialize(p) ==
  /\ task[p].pc = "idle"
  /\ ~db.started
  /\ task' = [task EXCEPT ![p] =
       [task[p] EXCEPT !.kind = "initialize", !.pc = "init_open",
                       !.dbAtCall = DbPhase]]
  /\ db' = [db EXCEPT !.started = TRUE]
  /\ UNCHANGED <<conversations, messages, feedback, now>>

\* the data directory is made if missing; this.db = await open(...)
InitOpen(p, fault) ==
  /\ task[p].pc = "init_open"
  /\ IF fault
     THEN /\ task' = [task EXCEPT ![p] = Throw(task[p], "SQLITE_CANTOPEN")]
          /\ UNCHANGED db
     ELSE /\ task' = [task EXCEPT ![p] = [task[p] EXCEPT !.pc = "init_pragma"]]
          /\ db' = [db EXCEPT !.handle = "open"]
  /\ UNCHANGED <<conversations, messages, feedback, now>>

\* await this.db.exec('PRAGMA foreign_keys = ON')
InitPragma(p, fault) ==
  /\ task[p].pc = "init_pragma"
  /\ IF fault \/ db.handle # "open"
     THEN /\ task' = [task EXCEPT ![p] = Throw(task[p], "SQLITE_ERROR")]
          /\ UNCHANGED db
     ELSE /\ task' = [task EXCEPT ![p] = [task[p] EXCEPT !.pc = "init_schema"]]
          /\ db' = [db EXCEPT !.foreign_keys = TRUE]
  /\ UNCHANGED <<conversations, messages, feedback, now>>

\* await this.setupSchema(): the schema file is read and executed (CREATE
\* TABLE IF NOT EXISTS, INSERT OR IGNORE), then initialize() resolves
InitSchema(p, fault) ==
  /\ task[p].pc = "init_schema"
  /\ IF fault \/ db.handle # "open"
     THEN /\ task' = [task EXCEPT ![p] = Throw(task[p], "SQLITE_ERROR")]
          /\ UNCHANGED db
     ELSE /\ task' = [task EXCEPT ![p] =
               [task[p] EXCEPT !.pc = "done", !.nres = 1,
                               !.result = [status |-> 200]]]
          /\ db' = [db EXCEPT !.tables = TRUE, !.initialized = TRUE]
  /\ UNCHANGED <<conversations, messages, feedback, now>>

\* sqliteService.close() is called: if (this.db) await this.db.close()
CallClose(p) ==
  /\ task[p].pc = "idle"
  /\ LET t == [task[p] EXCEPT !.kind = "close", !.dbAtCall = DbPhase]
     IN IF db.handle = "null"
        THEN /\ task' = [task EXCEPT ![p] =
                  [t EXCEPT !.pc = "done", !.nres = 1, !.result = [status |-> 200]]]
             /\ UNCHANGED db
        ELSE /\ task' = [task EXCEPT ![p] = [t EXCEPT !.pc = "close_wait"]]
             /\ db' = [db EXCEPT !.handle = "closing"]
  /\ UNCHANGED <<conversations, messages, feedback, now>>

\* this.db.close() calls back; this.db = null
CloseDone(p, fault) ==
  /\ task[p].pc = "close_wait"
  /\ IF fault
     THEN /\ task' = [task EXCEPT ![p] = Throw(task[p], "SQLITE_BUSY")]
          /\ db' = [db EXCEPT !.handle = "open"]
     ELSE /\ task' = [task EXCEPT ![p] =
               [task[p] EXCEPT !.pc = "done", !.nres = 1,
                               !.result = [status |-> 200]]]
          /\ db' = [db EXCEPT !.handle = "null", !.foreign_keys = FALSE,
                              !.closed = TRUE]
  /\ UNCHANGED <<conversations, messages, feedback, now>>

\* sqliteService.healthCheck(): SELECT COUNT(*) as count FROM community_stats,
\* count >= 0; false when getDB() or the statement throws
StoreHealthCheck(p, fault) ==
  /\ task[p].pc = "idle"
  /\ task' = [task EXCEPT ![p] =
       [task[p] EXCEPT !.kind = "storeHealth", !.pc = "done", !.nres = 1,
                       !.dbAtCall = DbPhase,
                       !.result = [returned |-> ~(getDBThrows \/ Fails(fault))]]]
  /\ UNCHANGED <<conversations, messages, feedback, now, db>>

\* task 1 makes a request or a store call while task 2 starts the instance,
\* asks for its health and closes it, one call after the other
NextLifecycle ==
  \/ Steps({1}, ConcMessageInputs, ConcConvIdInputs, ConcUserIdInputs, {"c1"},
           {"user"}, {FALSE}, LimitProviderOutcomes)
  \/ FeedbackSteps({1}, ConcUserIdInputs, {FALSE})
  \/ ReadSteps({1}, {"c1"}, {FALSE})
  \/ \E limit \in LimitInputs, clock \in ClockReadings :
       CallGetUpcomingEvents(1, limit, FALSE, clock)
  \/ CallInitialize(2)
  \/ \E fault \in BOOLEAN : InitOpen(2, fault)
  \/ \E fault \in BOOLEAN : InitPragma(2, fault)
  \/ \E fault \in BOOLEAN : InitSchema(2, fault)
  \/ CallClose(2)
  \/ \E fault \in BOOLEAN : CloseDone(2, fault)
  \/ \E fault \in BOOLEAN : StoreHealthCheck(2, fault)
  \/ Return(2)

SpecLifecycle == InitBoot /\ [][NextLifecycle]_vars

(***************************************************************************)
(* Properties                                                              *)
(***************************************************************************)
\* the chat turns, and those that have sent their response
ChatTurns == {p \in Procs : task[p].kind = "chat" /\ task[p].valid}
ReturnedTurns == {p \in ChatTurns : task[p].pc = "done"}

\* the spec's names for the code's values
ModeProvider == "groq"
SourceProvider == "groq_api"
SourceLocal == "qtipoc_local_knowledge"
ReasonUnavailable == "groq_api_unavailable"

Rows == {messages[i] : i \in 1..Len(messages)}
RowOf(id) == CHOOSE m \in Rows : m.id = id

AllFailed(outcomes) == \A i \in 1..Len(outcomes) : outcomes[i] = "fail"
Exhausted(t) == t.outcomes = <<"fail", "fail", "fail">>

\* C1: a chat request with a valid message gets exactly one result, whatever
\* the provider and the store do; its mode is provider, fallback or emergency
\* and its response text is not empty.
C1_OneNonEmptyResult ==
  /\ \A p \in ChatTurns : task[p].nres = (IF task[p].pc = "done" THEN 1 ELSE 0)
  /\ \A p \in ReturnedTurns :
       /\ task[p].result.mode \in {ModeProvider, "fallback", "emergency"}
       /\ Len(task[p].result.response) > 0

\* reached: the provider answered with blanks only and the turn returned
C1_Witness ==
  \E p \in ReturnedTurns :
    /\ task[p].result.mode = ModeProvider
    /\ task[p].result.response = Opener

\* C2: with a healthy store the provider's attempts decide the mode: provider
\* when an attempt succeeded, fallback (stored with fallback_reason
\* provider_unavailable) when all three attempts failed.
C2_ModeFollowsAttempts ==
  \A p \in ReturnedTurns :
    task[p].storeErrs = 0 =>
      /\ (task[p].result.mode = ModeProvider) <=>
           (\E i \in 1..Len(task[p].outcomes) : task[p].outcomes[i] = "ok")
      /\ (task[p].result.mode = "fallback") <=> Exhausted(task[p])
      /\ task[p].result.mode \in {ModeProvider, "fallback"}
      /\ task[p].result.mode = "fallback" =>
           /\ task[p].messageId \in MessageIds
           /\ RowOf(task[p].messageId).role = "assistant"
           /\ Includes(RowOf(task[p].messageId).metadata,
                       "\"fallback_reason\":\"" \o ReasonUnavailable \o "\"")

\* reached: two failed attempts, a third that succeeds, and a provider result
C2_Witness ==
  \E p \in ReturnedTurns :
    /\ task[p].storeErrs = 0
    /\ task[p].outcomes = <<"fail", "fail", "ok">>
    /\ task[p].result.mode = ModeProvider

\* C3: one call of the provider makes at most 3 attempts, none after a
\* success, and it fails only after exactly 3 failed attempts.
C3_AtMostThreeAttempts ==
  \A p \in ChatTurns :
    LET t == task[p]
        n == Len(t.outcomes)
    IN /\ n <= 3
       /\ \A i \in 1..(n - 1) : t.outcomes[i] = "fail"
       /\ t.pc = "provider" => AllFailed(t.outcomes) /\ t.attempt = n + 1
       /\ (\E i \in 1..Len(t.trace) : t.trace[i] = "PROVIDER_FAILED") => Exhausted(t)
       /\ (\E i \in 1..Len(t.trace) : t.trace[i] = "PROVIDER_OK") =>
            n >= 1 /\ t.outcomes[n] = "ok"
       /\ t.attempt <= 3

\* reached: the provider call failed after three failed attempts
C3_Witness ==
  \E p \in ChatTurns :
    /\ Exhausted(task[p])
    /\ task[p].pc = "catch"
    /\ task[p].err = "GROQ API failed after 3 attempts: timeout"


\* C4: mode fallback is returned, and a local-knowledge assistant message is
\* stored, only when the provider call exhausted its retries in that turn; a
\* store failure after a successful completion does not take the fallback path.
C4_FallbackOnlyOnExhaustion ==
  \A p \in ChatTurns :
    /\ (task[p].pc = "done" /\ task[p].result.mode = "fallback") => Exhausted(task[p])
    /\ task[p].site = "fallback" => Exhausted(task[p])

\* C5: any failure other than provider exhaustion (conversation creation, the
\* user-message write, the assistant-message write in either branch) ends the
\* turn in EMERGENCY: the static apology, mode emergency, confidence 0.7.
C5_StoreFailureIsEmergency ==
  \A p \in ReturnedTurns :
    task[p].storeErrs > 0 =>
      /\ task[p].result.mode = "emergency"
      /\ task[p].result.response = EmergencyResponse
      /\ task[p].result.confidence = "0.7"

\* the milestones of a turn, in the order the state machine gives them
TurnOrderOk ==
  <<"START", "CONV_RESOLVED", "USER_MSG_STORED", "PROMPT_BUILT", "PROVIDER_OK",
    "REPLY_STORED", "DONE">>
TurnOrderFailed ==
  <<"START", "CONV_RESOLVED", "USER_MSG_STORED", "PROMPT_BUILT", "PROVIDER_FAILED",
    "REPLY_STORED", "DONE">>
IsPrefix(a, b) == Len(a) <= Len(b) /\ SubSeq(b, 1, Len(a)) = a
InTurnOrder(tr) == IsPrefix(tr, TurnOrderOk) \/ IsPrefix(tr, TurnOrderFailed)
Front(tr) == SubSeq(tr, 1, Len(tr) - 1)

\* the position in the messages table of the row with this id
PosOf(id) == CHOOSE i \in 1..Len(messages) : messages[i].id = id

\* C6: the steps of a turn happen in the order START, CONV_RESOLVED,
\* USER_MSG_STORED, PROMPT_BUILT, PROVIDER_OK or PROVIDER_FAILED, REPLY_STORED,
\* DONE (EMERGENCY may end it anywhere before DONE); the user message is
\* persisted before the first provider attempt; and when a provider or
\* fallback result is returned, its conversation holds the turn's user message
\* and, after it, an assistant message whose content is the returned response.
C6_TurnOrder ==
  \A p \in ChatTurns :
    LET t == task[p]
    IN /\ \/ InTurnOrder(t.trace)
          \/ /\ t.trace[Len(t.trace)] = "EMERGENCY"
             /\ InTurnOrder(Front(t.trace))
             /\ Len(t.trace) <= Len(TurnOrderOk)
       /\ (t.pc = "provider" \/ Len(t.outcomes) > 0) =>
            /\ Len(t.msgIds) >= 1
            /\ t.msgIds[1] \in MessageIds
            /\ RowOf(t.msgIds[1]).role = "user"
            /\ RowOf(t.msgIds[1]).content = t.message
            /\ RowOf(t.msgIds[1]).conversation_id = t.conversationId
       /\ (t.pc = "done" /\ t.result.mode \in {ModeProvider, "fallback"}) =>
            /\ Len(t.msgIds) >= 2
            /\ \A k \in 1..Len(t.msgIds) : t.msgIds[k] \in MessageIds
            /\ LET um == RowOf(t.msgIds[1])
                   am == RowOf(t.msgIds[Len(t.msgIds)])
               IN /\ um.role = "user" /\ um.content = t.message
                  /\ um.conversation_id = t.result.conversation_id
                  /\ am.role = "assistant" /\ am.content = t.result.response
                  /\ am.conversation_id = t.result.conversation_id
                  /\ PosOf(um.id) < PosOf(am.id)
                  /\ um.timestamp <= am.timestamp

\* reached: a turn whose provider call failed went through every step to DONE
C6_Witness ==
  \E p \in ReturnedTurns :
    /\ task[p].trace = TurnOrderFailed
    /\ task[p].result.mode = "fallback"

\* the metadata of a row names this source / confidence / fallback_reason
MetaHas(row, key, json) == Includes(row.metadata, "\"" \o key \o "\":" \o json)

\* C7: for every turn that ends in DONE the returned provenance equals the
\* metadata stored with the assistant message: provider success gives source
\* provider_api and confidence 0.95, exhaustion gives local_knowledge, 0.85 and
\* fallback_reason provider_unavailable; no assistant message of a provider
\* result carries a fallback_reason.
C7_ProvenanceMatches ==
  \A p \in ReturnedTurns :
    LET t == task[p]
        n == Len(t.outcomes)
    IN t.result.mode # "emergency" =>
         LET am == RowOf(t.messageId)
         IN /\ MetaHas(am, "model", "\"" \o t.result.model \o "\"")
            /\ MetaHas(am, "source", "\"" \o t.result.source \o "\"")
            /\ MetaHas(am, "confidence", t.result.confidence)
            /\ (n >= 1 /\ t.outcomes[n] = "ok") =>
                 /\ t.result.source = SourceProvider
                 /\ t.result.confidence = "0.95"
            /\ Exhausted(t) =>
                 /\ t.result.source = SourceLocal
                 /\ t.result.confidence = "0.85"
                 /\ MetaHas(am, "fallback_reason", "\"" \o ReasonUnavailable \o "\"")
            /\ t.result.mode = ModeProvider =>
                 \A k \in 1..Len(t.msgIds) :
                   ~Includes(RowOf(t.msgIds[k]).metadata, "fallback_reason")


\* the turns that have resolved their conversation
ResolvedTurns ==
  {p \in ChatTurns : \E i \in 1..Len(task[p].trace) : task[p].trace[i] = "CONV_RESOLVED"}

\* every message the turn wrote is in this conversation, and so is its result
TurnUses(t, cid) ==
  /\ t.conversationId = cid
  /\ \A k \in 1..Len(t.msgIds) : RowOf(t.msgIds[k]).conversation_id = cid
  /\ (t.pc = "done" /\ t.result.mode # "emergency") => t.result.conversation_id = cid

InsertsIntoMissing(p) ==
  /\ task[p].pc = "msg_insert"
  /\ task[p].conversationId \notin DOMAIN conversations
  /\ task'[p] # task[p]

\* C9: appendMessage with a conversation id that references no conversation
\* fails (with the foreign-key error, unless the store rejects the statement
\* for another reason first), stores no message and changes no conversation;
\* a chat turn given such an id ends in EMERGENCY without a provider attempt.
C9_MissingConversationRejected ==
  [][\A p \in Procs :
       InsertsIntoMissing(p) =>
         /\ messages' = messages
         /\ conversations' = conversations
         /\ task'[p].storeErrs = task[p].storeErrs + 1
         /\ task'[p].err \in {"SQLITE_CONSTRAINT_FOREIGNKEY", "SQLITE_ERROR",
                              "SQLITE_CONSTRAINT_PRIMARYKEY", "SQLITE_CONSTRAINT_CHECK"}
         /\ (task[p].role \in {"user", "assistant"} /\ task'[p].err # "SQLITE_ERROR"
               /\ task'[p].err # "SQLITE_CONSTRAINT_PRIMARYKEY")
              => task'[p].err = "SQLITE_CONSTRAINT_FOREIGNKEY"
         /\ task'[p].pc = "done"
         /\ task[p].kind = "append" =>
              task'[p].result = [status |-> 500, error |-> task'[p].err]
         /\ task[p].kind = "chat" =>
              /\ task[p].site = "user"
              /\ task'[p].result.mode = "emergency"
              /\ task'[p].outcomes = <<>>
              /\ task'[p].msgIds = <<>>]_vars

\* reached: a turn given the id of no conversation ended in EMERGENCY on the
\* foreign-key error
C9_Witness ==
  \E p \in ReturnedTurns :
    /\ task[p].conversation_id = Some("zz")
    /\ task[p].err = "SQLITE_CONSTRAINT_FOREIGNKEY"
    /\ task[p].result.mode = "emergency"
    /\ task[p].outcomes = <<>>

\* C10: in every reachable state of the store, whatever the sequence and
\* interleaving of createConversation, appendMessage and chat turns, every
\* message's conversation_id references an existing conversation.
C10_MessagesReferenceConversations ==
  \A i \in 1..Len(messages) : messages[i].conversation_id \in DOMAIN conversations

\* reached: two operations, both still running, have each written a message,
\* and one of them into a conversation created in this run
C10_Witness ==
  \E p, q \in Procs :
    /\ p # q
    /\ task[p].pc \notin {"idle", "done"} /\ Len(task[p].msgIds) >= 1
    /\ task[q].pc \notin {"idle", "done"} /\ Len(task[q].msgIds) >= 1
    /\ task[p].created # {}


(***************************************************************************)
(* Conversation store                                                      *)
(***************************************************************************)
\* C11: in every state a reader can observe, between the two writes of
\* addMessage and after a failure between them included, last_message_at of
\* each conversation is at least its started_at and at least the timestamp of
\* every message the conversation owns
C11_LastMessageAtLatest ==
  \A c \in DOMAIN conversations :
    /\ conversations[c].last_message_at >= conversations[c].started_at
    /\ \A m \in Rows :
         m.conversation_id = c => conversations[c].last_message_at >= m.timestamp

\* the calls of appendMessage that have returned: chat turns that ended in DONE
\* and direct calls of addMessage
Appenders == {p \in Procs : /\ task[p].kind \in {"chat", "append"}
                            /\ task[p].pc = "done"
                            /\ task[p].result.status = 200}
Latest(S) == CHOOSE x \in S : \A y \in S : x >= y

\* the rows a conversation had before the calls of this run
RowsBefore(c) ==
  IF \E p \in Procs : c \in task[p].created THEN 0
  ELSE Len(SelectSeq(UsedStore.messages, LAMBDA m : m.conversation_id = c))

\* the contents a returned call has written, in its order
Written(t) == IF t.kind = "chat" THEN <<t.message, t.reply>> ELSE <<t.content>>

\* C12: when two chat turns or addMessage calls run concurrently against the
\* same conversation, under every interleaving of their store statements all
\* their messages are persisted, each in a row of its own with its content, and
\* once both have returned last_message_at is the value written by the
\* last_message_at update that landed last
C12_ConcurrentAppends ==
  \A c \in DOMAIN conversations :
    (Appenders = Procs /\ \A p \in Procs : task[p].conversationId = c)
    =>
    /\ \A p \in Procs :
         /\ Len(task[p].msgIds) = Len(Written(task[p]))
         /\ \A i \in 1..Len(task[p].msgIds) :
              /\ Cardinality({k \in 1..Len(messages) :
                                messages[k].id = task[p].msgIds[i]}) = 1
              /\ RowOf(task[p].msgIds[i]).conversation_id = c
              /\ RowOf(task[p].msgIds[i]).content = Written(task[p])[i]
    /\ \A p, q \in Procs :
         p # q => \A i \in 1..Len(task[p].msgIds), j \in 1..Len(task[q].msgIds) :
                    task[p].msgIds[i] # task[q].msgIds[j]
    /\ Len(SelectSeq(messages, LAMBDA m : m.conversation_id = c))
         = RowsBefore(c) + Len(task[1].msgIds) + Len(task[2].msgIds)
    /\ conversations[c].last_message_at = Latest({task[p].wrote : p \in Procs})

\* reached: two chat turns on one conversation have returned, the rows of one
\* lie around a row of the other, and their last updates wrote different values
C12_Witness ==
  \E p, q \in Appenders :
    /\ p # q
    /\ task[p].kind = "chat" /\ task[q].kind = "chat"
    /\ task[p].conversationId = task[q].conversationId
    /\ PosOf(task[p].msgIds[1]) < PosOf(task[q].msgIds[1])
    /\ PosOf(task[q].msgIds[1]) < PosOf(task[p].msgIds[2])
    /\ task[p].wrote # task[q].wrote

\* a step of createConversation (called directly or by a chat turn) in which
\* its INSERT succeeded
CreateInserted(p) ==
  /\ task[p].pc = "create_insert"
  /\ task'[p].pc = "create_select"

\* what such a step changes
CreateAddsOne(p) ==
  LET id == task'[p].conversationId
  IN /\ id \notin DOMAIN conversations
     /\ DOMAIN conversations' = DOMAIN conversations \cup {id}
     /\ conversations'[id].id = id
     /\ conversations'[id].started_at = conversations'[id].last_message_at
     /\ conversations'[id].is_active = 1
     /\ \A i \in 1..Len(messages') : messages'[i].conversation_id # id
     /\ \A c \in DOMAIN conversations : conversations'[c] = conversations[c]
     /\ messages' = messages
     /\ feedback' = feedback

\* every other step of createConversation leaves the store as it is
CreateStep(p) == task[p].pc \in {"create_insert", "create_select"}

\* C13: createConversation adds exactly one conversation, whose id differs
\* from the id of every existing conversation, with started_at equal to
\* last_message_at, the active flag set and no messages; it leaves every other
\* conversation and every message unchanged, and it returns the row as read
\* back from the store
C13_CreateConversation ==
  /\ [][\A p \in Procs :
          /\ CreateInserted(p) => CreateAddsOne(p)
          /\ (CreateStep(p) /\ ~CreateInserted(p)) =>
               UNCHANGED <<conversations, messages, feedback>>]_vars
  /\ [](\A p \in Procs :
          (task[p].kind = "create" /\ task[p].pc = "done") =>
            /\ Cardinality(task[p].created) <= 1
            /\ task[p].result.status = 200 =>
                 /\ task[p].created = {task[p].conversationId}
                 /\ task[p].conversationId \in DOMAIN conversations
                 /\ task[p].result.row = conversations[task[p].conversationId])

\* reached: createConversation has returned the row of a second conversation
C13_Witness ==
  \E p \in Procs :
    /\ task[p].kind = "create" /\ task[p].pc = "done"
    /\ task[p].result.status = 200
    /\ task[p].result.row.id = "c2"
    /\ DOMAIN conversations = {"c1", "c2"}
    /\ task[p].result.row.started_at = 1

\* the reads of the history that have returned rows
Readers == {p \in Procs : /\ task[p].kind = "getMessages"
                          /\ task[p].pc = "done"
                          /\ task[p].result.status = 200}

\* what addMessage was given, for a row and for a sequence of rows
Given(m) == [conversation_id |-> m.conversation_id, role |-> m.role,
             content |-> m.content]
GivenOf(rows) == [i \in 1..Len(rows) |-> Given(rows[i])]

Ascending(rows) ==
  \A i, j \in 1..Len(rows) : i < j => rows[i].timestamp <= rows[j].timestamp

HistoryReads == {p \in Procs : /\ task[p].kind \in {"getMessages", "history"}
                               /\ task[p].pc = "done"}
Returned(t) == IF t.kind = "history" THEN t.result.messages ELSE t.result.rows

\* the rows of the table that a conversation owns
Owned(c) == {m \in Rows : m.conversation_id = c}

\* C15: getConversationMessages returns only messages owned by the given
\* conversation, and all of them, ascending by timestamp; it returns the empty
\* sequence, not an error, when the conversation has no messages or does not
\* exist; it changes no stored state
C15_GetMessages ==
  /\ [](\A p \in HistoryReads :
          LET c == task[p].conversationId
              out == Returned(task[p])
          IN /\ task[p].result.status = 200
             /\ {out[i].id : i \in 1..Len(out)} = {m.id : m \in Owned(c)}
             /\ Len(out) = Cardinality(Owned(c))
             /\ \A i \in 1..Len(out) :
                  /\ RowOf(out[i].id).content = out[i].content
                  /\ RowOf(out[i].id).role = out[i].role
                  /\ RowOf(out[i].id).rating = out[i].rating
             /\ Ascending(out)
             /\ (c \notin DOMAIN conversations \/ Owned(c) = {}) => out = <<>>
             /\ task[p].kind = "history" => task[p].result.conversation_id = c)
  /\ [][\A p \in Procs :
          task'[p].kind \in {"getMessages", "history"} /\ task[p].pc = "idle"
            => UNCHANGED <<conversations, messages, feedback, now>>]_vars

\* reached: the read of a conversation that exists and has no messages returned
\* the empty sequence while another conversation has messages
C15_Witness ==
  \E p \in HistoryReads :
    /\ task[p].conversationId \in DOMAIN conversations
    /\ Returned(task[p]) = <<>>
    /\ Len(messages) > 0

(***************************************************************************)
(* Feedback                                                                *)
(***************************************************************************)
\* the feedback requests and direct addFeedback calls that have ended
FeedbackRequests == {p \in Procs : task[p].kind = "feedback" /\ task[p].pc = "done"}
FeedbackCalls == {p \in Procs : task[p].kind = "addFeedback" /\ task[p].pc = "done"}

\* the store is as the operation found it
StoreUntouched ==
  \E s \in InitStores :
    /\ conversations = s.conversations
    /\ messages = s.messages
    /\ feedback = s.feedback

\* the rating of a request is a whole number outside 1..5
OutsideRange(r) == r # None /\ IsInt(The(r)) /\ (ToInt(The(r)) < 1 \/ ToInt(The(r)) > 5)

\* C16: recordFeedback with a rating outside [1,5], 6 or 0 for example, fails
\* with a validation error (400 Invalid input from the route, the CHECK
\* constraint from the store) and leaves the store unchanged: no feedback row is
\* inserted and no rating of a message changes
C16_RatingOutOfRangeRejected ==
  /\ \A p \in FeedbackRequests :
       OutsideRange(task[p].ratingText) =>
         /\ task[p].result.status = 400
         /\ task[p].result.error = "Invalid input"
         /\ task[p].storeErrs = 0
         /\ StoreUntouched
  /\ \A p \in FeedbackCalls :
       (task[p].rating < 1 \/ task[p].rating > 5) =>
         /\ task[p].result.status = 500
         /\ task[p].err \in {"SQLITE_CONSTRAINT_CHECK", "SQLITE_ERROR"}
         /\ StoreUntouched
  /\ \A p \in Procs :
       (task[p].kind \in {"feedback", "addFeedback"} /\ task[p].pc = "fb_update")
         => task[p].rating \in 1..5

\* reached: a request with rating 6 for an existing message got 400
C16_Witness ==
  \E p \in FeedbackRequests :
    /\ task[p].ratingText = Some("6")
    /\ task[p].message_id = Some("m1")
    /\ "m1" \in MessageIds
    /\ task[p].result.status = 400

\* a feedback operation on which the store did not fail for a reason of its own
\* (an injected error, a collision of the generated id)
NoStoreFailure(t) == t.err \notin {"SQLITE_ERROR", "SQLITE_CONSTRAINT_PRIMARYKEY"}

\* the conversation's history shows this rating for the message
HistoryShows(mid, rating) ==
  LET rows == getConversationMessages(RowOf(mid).conversation_id)
  IN \E i \in 1..Len(rows) : rows[i].id = mid /\ rows[i].rating = Some(rating)

\* the rows of the table other than mid are as the operation found them
OthersUntouched(mid) ==
  \E s \in InitStores :
    /\ Len(messages) = Len(s.messages)
    /\ \A i \in 1..Len(messages) : messages[i].id # mid => messages[i] = s.messages[i]
    /\ \A i \in 1..Len(messages) :
         messages[i].id = mid => [messages[i] EXCEPT !.rating = None]
                                   = [s.messages[i] EXCEPT !.rating = None]

\* C17: recordFeedback with a rating in [1,5] on an existing message succeeds,
\* inserts exactly one feedback row referencing that message and sets the
\* rating of that message, so that a later read of its conversation shows the
\* rating; no other message is changed
C17_FeedbackRecorded ==
  \A p \in FeedbackRequests \cup FeedbackCalls :
    (/\ task[p].valid
     /\ task[p].rating \in 1..5
     /\ task[p].messageId \in MessageIds
     /\ NoStoreFailure(task[p]))
    =>
    /\ task[p].result.status = 200
    /\ \E s \in InitStores :
         feedback = Append(s.feedback, feedback[Len(feedback)])
    /\ feedback[Len(feedback)].message_id = task[p].messageId
    /\ feedback[Len(feedback)].rating = task[p].rating
    /\ RowOf(task[p].messageId).rating = Some(task[p].rating)
    /\ HistoryShows(task[p].messageId, task[p].rating)
    /\ OthersUntouched(task[p].messageId)

\* C18: recordFeedback with a messageId that references no existing message
\* fails with the foreign-key error of the store and leaves the store
\* unchanged; no feedback row referencing a nonexistent message ever exists
C18_FeedbackOnMissingMessage ==
  /\ \A p \in FeedbackRequests \cup FeedbackCalls :
       (task[p].valid /\ task[p].messageId \notin MessageIds) =>
         /\ task[p].result.status = 500
         /\ task[p].err \in {"SQLITE_CONSTRAINT_FOREIGNKEY", "SQLITE_CONSTRAINT_CHECK",
                             "SQLITE_CONSTRAINT_PRIMARYKEY", "SQLITE_ERROR"}
         /\ (task[p].rating \in 1..5 /\ NoStoreFailure(task[p]))
              => task[p].err = "SQLITE_CONSTRAINT_FOREIGNKEY"
         /\ StoreUntouched
  /\ \A i \in 1..Len(feedback) : feedback[i].message_id \in MessageIds

\* reached: a request with rating 3 for the id of no message failed on the
\* foreign key while the store holds messages and feedback
C18_Witness ==
  \E p \in FeedbackRequests :
    /\ task[p].messageId = "zz"
    /\ task[p].rating = 3
    /\ task[p].user_id = None
    /\ task[p].err = "SQLITE_CONSTRAINT_FOREIGNKEY"
    /\ task[p].result.status = 500
    /\ Len(feedback) = 1

\* C19: a persisted message never changes after creation except for its rating,
\* and its rating is set at most once: once a message has a rating, no later
\* recordFeedback changes it
C19_RatingSetOnce ==
  [][/\ Len(messages') >= Len(messages)
     /\ \A i \in 1..Len(messages) :
          /\ [messages'[i] EXCEPT !.rating = None] = [messages[i] EXCEPT !.rating = None]
          /\ messages[i].rating # None => messages'[i].rating = messages[i].rating]_vars

\* C20: in every reachable state every rating of a message that is present and
\* every rating of a feedback row is an integer in [1,5], and every role of a
\* message is user or assistant
C20_RatingsAndRoles ==
  /\ \A i \in 1..Len(messages) :
       /\ messages[i].role \in {"user", "assistant"}
       /\ messages[i].rating # None => The(messages[i].rating) \in 1..5
  /\ \A i \in 1..Len(feedback) : feedback[i].rating \in 1..5

\* reached: a feedback of rating 5 has been recorded on a message in a store
\* that holds messages of both roles
C20_Witness ==
  /\ \E i \in 1..Len(messages) : messages[i].rating = Some(5)
  /\ \E i \in 1..Len(feedback) : feedback[i].rating = 5
  /\ \E i, j \in 1..Len(messages) :
       messages[i].role = "user" /\ messages[j].role = "assistant"

(***************************************************************************)
(* Chat turns: partial failure, validation, termination                    *)
(***************************************************************************)
\* C21: store writes a chat turn has issued are never rolled back: when a turn
\* ends in EMERGENCY, or is abandoned at any point, after its user message was
\* stored, that user message remains persisted, so a conversation may hold a
\* user message with no paired assistant reply
C21_WritesNotRolledBack ==
  /\ [](\A p \in ChatTurns :
          \A i \in 1..Len(task[p].msgIds) :
            /\ \E k \in 1..Len(messages) : messages[k].id = task[p].msgIds[i]
            /\ RowOf(task[p].msgIds[i]).conversation_id = task[p].conversationId
            /\ i = 1 => /\ RowOf(task[p].msgIds[i]).role = "user"
                        /\ RowOf(task[p].msgIds[i]).content = task[p].message)
  /\ [][/\ Len(messages') >= Len(messages)
        /\ \A i \in 1..Len(messages) :
             /\ messages'[i].id = messages[i].id
             /\ messages'[i].conversation_id = messages[i].conversation_id
             /\ messages'[i].content = messages[i].content]_vars

\* reached: a turn has ended in EMERGENCY after storing its user message, which
\* is the last row of the table: it has no assistant reply
C21_Witness ==
  \E p \in ReturnedTurns :
    /\ task[p].result.mode = "emergency"
    /\ Len(task[p].msgIds) = 1
    /\ messages[Len(messages)].id = task[p].msgIds[1]
    /\ messages[Len(messages)].role = "user"
    /\ messages[Len(messages)].content = "I need housing help"

\* the request has been refused before the handler did anything
FailedFast(t) ==
  /\ t.pc = "done"
  /\ t.nres = 1
  /\ t.result = [status |-> 400, error |-> "Invalid input"]
  /\ t.created = {} /\ t.msgIds = <<>> /\ t.outcomes = <<>> /\ t.attempt = 0
  /\ StoreUntouched

\* C22 as stated: a chat request whose message is empty after trimming or is
\* longer than 2000 characters fails fast with a validation error: no
\* conversation created, no message stored, no provider attempt
C22_Original ==
  \A p \in Procs :
    (/\ task[p].kind = "chat"
     /\ task[p].received # None
     /\ \/ Trim(The(task[p].received)) = ""
        \/ Len(The(task[p].received)) > 2000)
      => FailedFast(task[p])

\* C22: a chat request whose message, once trimmed, is empty or longer than
\* 2000 characters fails fast with a validation error: no conversation is
\* created, no message is stored and no provider attempt is made
C22_InvalidMessageFailsFast ==
  \A p \in Procs :
    (/\ task[p].kind = "chat"
     /\ task[p].received # None
     /\ \/ Trim(The(task[p].received)) = ""
        \/ Len(Trim(The(task[p].received))) > 2000)
      => FailedFast(task[p])

\* reached: a message of 2001 characters, none of them blank, was refused
C22_Witness ==
  \E p \in Procs :
    /\ task[p].kind = "chat"
    /\ task[p].received # None
    /\ Len(Trim(The(task[p].received))) = 2001
    /\ FailedFast(task[p])

\* C23: every chat turn terminates: when each provider call and each store
\* operation eventually returns or fails, the turn reaches DONE or EMERGENCY,
\* also when every provider attempt fails
C23_TurnTerminates ==
  \A p \in Procs :
    (task[p].kind = "chat" /\ task[p].valid)
      ~> (/\ task[p].pc = "done"
          /\ task[p].nres = 1
          /\ Len(task[p].trace) > 0
          /\ task[p].trace[Len(task[p].trace)] \in {"DONE", "EMERGENCY"})

\* reached: a turn all of whose provider attempts failed has ended
C23_Witness ==
  \E p \in ChatTurns :
    /\ Exhausted(task[p])
    /\ task[p].pc = "done"
    /\ task[p].trace[Len(task[p].trace)] \in {"DONE", "EMERGENCY"}

(***************************************************************************)
(* IvorPersona                                                             *)
(***************************************************************************)
\* C24: in the fallback path (the provider failing 3 times) for a message that
\* contains a topic keyword and matches the support-seeking and the
\* resource-seeking heuristics, the stored assistant message has its source
\* local_knowledge and its reply is the topic's canned text with the resource
\* names of the heuristics appended
C24_FallbackReplyHasResources ==
  \A p \in ReturnedTurns :
    LET t == task[p]
    IN (/\ Exhausted(t)
        /\ t.result.status = 200 /\ t.result.mode = "fallback"
        /\ MatchingTopics(t.message) # {}
        /\ isSeekingSupport(t.message)
        /\ needsUKResources(t.message)
        /\ Len(getRelevantUKResources(t.message)) > 0)
       => LET row == RowOf(t.msgIds[2])
              canned == communityKnowledge[Min(MatchingTopics(t.message))].message
              names == getRelevantUKResources(t.message)
              appended == SubSeq(row.content, Len(canned) + 1, Len(row.content))
          IN /\ row.role = "assistant"
             /\ JsonParse(row.metadata) = FallbackMetadata
             /\ IsPrefix(canned, row.content)
             /\ \A i \in 1..Len(names) : Includes(appended, names[i])

\* the calls of the persona that have returned
FallbackCalls == {p \in Procs : task[p].kind = "getFallbackResponse" /\ task[p].pc = "done"}
PostProcessCalls == {p \in Procs : task[p].kind = "processResponse" /\ task[p].pc = "done"}

\* the keyword occurs in the text, whatever the case of the text's letters
Occurs(keyword, text) == Includes(ToLower(text), keyword)

\* how many times t occurs in s
Occurrences(s, t) ==
  Cardinality({i \in 1..(Len(s) - Len(t) + 1) : SubSeq(s, i, i + Len(t) - 1) = t})

IsSuffix(a, b) == Len(a) <= Len(b) /\ SubSeq(b, Len(b) - Len(a) + 1, Len(b)) = a

TopicsOccurring(text) ==
  {k \in 1..Len(communityKnowledge) : Occurs(communityKnowledge[k].topic, text)}

\* C25: Persona.fallback is total: for every input text it returns a non-empty
\* text that is the canned response of a topic whose keyword occurs in the
\* message or, when no topic keyword occurs, one of the 5 fixed generic
\* fallback messages
C25_FallbackTotal ==
  /\ Len(fallbackResponses) = 5
  /\ \A p \in Procs :
       task[p].kind = "getFallbackResponse" =>
         /\ task[p].pc = "done" /\ task[p].nres = 1
         /\ task[p].reply # ""
         /\ IF TopicsOccurring(task[p].message) # {}
            THEN \E k \in TopicsOccurring(task[p].message) :
                   task[p].reply = communityKnowledge[k].message
            ELSE \E i \in 1..5 : task[p].reply = fallbackResponses[i]

\* reached: the empty text was answered with the last of the generic messages
C25_Witness ==
  \E p \in FallbackCalls :
    /\ task[p].message = ""
    /\ task[p].reply = fallbackResponses[5]

\* C26: Persona.fallback answers with the first match of the topic table in its
\* declaration order (mental health, housing, benefits, coming out,
\* discrimination, healthcare): when several topic keywords occur in the
\* message, in any case, the response is that of the keyword declared
\* earliest, wherever the keywords stand in the message
C26_FirstDeclaredTopic ==
  /\ [k \in 1..Len(communityKnowledge) |-> communityKnowledge[k].topic]
       = <<"mental health", "housing", "benefits", "coming out", "discrimination",
           "healthcare">>
  /\ \A p \in FallbackCalls :
       \A k \in TopicsOccurring(task[p].message) :
         (\A j \in TopicsOccurring(task[p].message) : k <= j)
           => task[p].reply = communityKnowledge[k].message

\* reached: housing stands before mental health in the message, in capitals,
\* and the response is that of mental health
C26_Witness ==
  \E p \in FallbackCalls :
    /\ task[p].message = "HOUSING mental health"
    /\ task[p].reply = communityKnowledge[1].message

\* the keywords of the support-seeking heuristic
SupportSeeking(text) ==
  \E w \in {"help", "struggling", "difficult", "hard", "lonely", "sad", "depressed",
            "anxious", "worried", "scared", "alone"} : Occurs(w, text)

ResourceSeeking(text) ==
  \E w \in {"housing", "benefits", "nhs", "mental health", "support", "help",
            "services", "legal", "rights", "discrimination"} : Occurs(w, text)

\* the mapping from keywords to resource names, in its declaration order
ResourceMapping == <<
  [keywords |-> {"mental health", "therapy"}, names |-> <<"NHS IAPT", "Black Thrive BQC">>],
  [keywords |-> {"housing", "homeless"}, names |-> <<"Outside Project", "Shelter">>],
  [keywords |-> {"benefits", "money"}, names |-> <<"Citizens Advice", "Turn2us">>],
  [keywords |-> {"work", "job"}, names |-> <<"ACAS", "LGBT Foundation">>],
  [keywords |-> {"trans", "gender"}, names |-> <<"Gendered Intelligence", "CliniQ">>] >>

\* xs without the elements that ys holds already
RECURSIVE Without(_, _)
Without(xs, ys) ==
  IF xs = <<>> THEN <<>>
  ELSE IF \E i \in 1..Len(ys) : ys[i] = xs[1] THEN Without(Tail(xs), ys)
  ELSE <<xs[1]>> \o Without(Tail(xs), ys \o <<xs[1]>>)

\* the union of the lists of the entries 1..k whose keyword occurs, in order
RECURSIVE ResourceUnion(_, _)
ResourceUnion(text, k) ==
  IF k = 0 THEN <<>>
  ELSE LET before == ResourceUnion(text, k - 1)
       IN IF \E w \in ResourceMapping[k].keywords : Occurs(w, text)
          THEN before \o Without(ResourceMapping[k].names, before)
          ELSE before

\* C28: Persona.postProcess appends a resource list only when the original
\* message matches the resource-seeking heuristic; the list is the union of
\* the lists of all matching mapping keywords, in the mapping's declaration
\* order, no name repeated; nothing is appended when the union is empty
C28_ResourceList ==
  \A p \in PostProcessCalls :
    LET t == task[p]
        union == ResourceUnion(t.message, Len(ResourceMapping))
    IN /\ \A i, j \in 1..Len(union) : union[i] = union[j] => i = j
       /\ IF ResourceSeeking(t.message) /\ union # <<>>
          THEN /\ IsSuffix(ResourcesLead \o Join(union, ", "), t.reply)
               /\ Occurrences(t.reply, ResourcesLead) = 1
          ELSE /\ Occurrences(t.reply, ResourcesLead) = 0
               /\ \A k \in 1..Len(ResourceMapping) :
                    \A i \in 1..Len(ResourceMapping[k].names) :
                      ~Includes(t.reply, ResourceMapping[k].names[i])

\* reached: benefits stands before housing in the message; the list appended
\* names the resources of housing first, as the mapping declares them
C28_Witness ==
  \E p \in PostProcessCalls :
    /\ task[p].message = "benefits HOUSING"
    /\ IsSuffix(ResourcesLead \o "Outside Project, Shelter, Citizens Advice, Turn2us",
                task[p].reply)

\* the reply holds a first-person marker of the code: 'I ' or "I'm"
FirstPerson(text) == Includes(text, "I ") \/ Includes(text, "I'm")

\* C29: Persona.postProcess prepends the fixed empathetic opener if and only if
\* the AI reply contains no first-person marker; a reply that holds one gets no
\* opener; the original reply is always kept inside the result
C29_OpenerIffNoFirstPerson ==
  \A p \in PostProcessCalls :
    LET t == task[p]
    IN /\ ~FirstPerson(t.content) => IsPrefix(Opener \o t.content, t.reply)
       /\ FirstPerson(t.content) =>
            /\ IsPrefix(t.content, t.reply)
            /\ Occurrences(t.reply, Opener) = 0
       /\ Includes(t.reply, t.content)

\* reached: a reply without a first-person marker got the opener
C29_Witness ==
  \E p \in PostProcessCalls :
    /\ task[p].content = "You matter"
    /\ task[p].message = "hi"
    /\ task[p].reply = Opener \o "You matter"

(***************************************************************************)
(* GroqService: the error of an exhausted call                             *)
(***************************************************************************)
\* C30: when Provider.complete fails after exhausting its attempts, the error
\* it raises carries the message of the last attempt's underlying error, not
\* that of an earlier attempt, and the attempt count 3
C30_ExhaustedErrorIsLast ==
  \A p \in ChatTurns :
    (task[p].pc = "catch" /\ Exhausted(task[p])) =>
      /\ Len(task[p].errors) = 3
      /\ task[p].err = "GROQ API failed after 3 attempts: " \o task[p].errors[3]

\* reached: the call has given up after an empty response and then two
\* rejections; the error raised names the rejection
C30_Witness ==
  \E p \in ChatTurns :
    /\ task[p].pc = "catch"
    /\ task[p].errors = <<"Empty response from GROQ API", "timeout", "timeout">>
    /\ task[p].err = "GROQ API failed after 3 attempts: timeout"

(***************************************************************************)
(* GroqService: health check, failed attempts, backoff                     *)
(***************************************************************************)
\* the calls of generateResponse and of healthCheck
CompleteCalls == {p \in Procs : task[p].kind = "generateResponse"}
HealthChecks == {p \in Procs : task[p].kind = "healthCheck"}

\* the provider call threw, or its reply body is empty or absent
BodyFails(out) ==
  \/ out.kind = "reject"
  \/ out.kind = "absent"
  \/ out.kind = "content" /\ out.text = ""

HasReturned(t) == t.pc = "done" /\ DOMAIN t.result = {"returned"}
Threw(t) == t.pc = "done" /\ DOMAIN t.result = {"threw"}

\* C31: Provider.healthCheck never propagates a failure: it returns true if and
\* only if complete succeeds on the canary prompt with a reply that contains
\* "ok" in any case, and false when complete exhausts its retries or the
\* reply lacks "ok"
C31_HealthCheckNeverThrows ==
  \A p \in HealthChecks :
    LET t == task[p]
        n == Len(t.replies)
    IN /\ ~Threw(t)
       /\ t.pc = "done" =>
            /\ HasReturned(t) /\ t.nres = 1 /\ t.result.returned \in BOOLEAN
            /\ t.result.returned =
                 (/\ n >= 1 /\ ~BodyFails(t.replies[n])
                  /\ \E w \in {"ok", "oK", "Ok", "OK"} : Includes(t.replies[n].text, w))
            /\ (n = 3 /\ \A i \in 1..3 : BodyFails(t.replies[i]))
                 => t.result.returned = FALSE

\* reached: the health check has answered true on a reply in capitals after a
\* failed attempt
C31_Witness ==
  \E p \in HealthChecks :
    /\ task[p].pc = "done"
    /\ Len(task[p].replies) = 2
    /\ task[p].replies[2] = [kind |-> "content", text |-> "OK"]
    /\ task[p].result = [returned |-> TRUE]


\* C32: within Provider.complete an attempt that throws, or returns an empty or
\* absent reply body, counts as a failed attempt and is followed by the next
\* attempt while attempts remain; such a reply is never returned to the
\* caller as a success
C32_FailedAttemptIsRetried ==
  \A p \in CompleteCalls :
    LET t == task[p]
        n == Len(t.replies)
    IN /\ n <= 3 /\ Len(t.outcomes) = n
       /\ \A i \in 1..n : BodyFails(t.replies[i]) <=> t.outcomes[i] = "fail"
       /\ \A i \in 1..(n - 1) : BodyFails(t.replies[i])
       /\ (n >= 1 /\ BodyFails(t.replies[n])) =>
            /\ ~HasReturned(t)
            /\ n < 3 => t.pc \in {"gen_delay", "gen_create"}
            /\ t.pc = "gen_delay" => t.attempt = n
            /\ t.pc = "gen_create" => t.attempt = n + 1
            /\ n = 3 => Threw(t)
       /\ HasReturned(t) => n >= 1 /\ ~BodyFails(t.replies[n])

\* reached: an absent body, then an empty one, and the third attempt under way
C32_Witness ==
  \E p \in CompleteCalls :
    /\ task[p].pc = "gen_create"
    /\ task[p].attempt = 3
    /\ task[p].replies = << [kind |-> "absent", text |-> ""],
                            [kind |-> "content", text |-> ""] >>

\* the sum of a sequence of numbers
RECURSIVE Sum(_)
Sum(xs) == IF xs = <<>> THEN 0 ELSE xs[1] + Sum(Tail(xs))

\* C33: between failed attempt k and attempt k+1 of Provider.complete the wait
\* is baseDelay * k (1 unit after the first failure, 2 after the second);
\* there is no wait after the third failed attempt or after a successful
\* attempt; the waits of one call add up to at most 3 base units
C33_LinearBackoff ==
  \A p \in CompleteCalls \cup HealthChecks :
    LET t == task[p]
        n == Len(t.outcomes)
        failed == Cardinality({i \in 1..n : t.outcomes[i] = "fail"})
    IN /\ t.waits = [k \in 1..Len(t.waits) |-> 1000 * k]
       /\ Len(t.waits) = IF failed = 3 THEN 2 ELSE failed
       /\ Sum(t.waits) <= 3 * 1000
       /\ t.pc = "gen_delay" <=>
            (n \in 1..2 /\ t.outcomes[n] = "fail" /\ t.attempt = n)

\* reached: a call has given up after waiting 1 and then 2 units
C33_Witness ==
  \E p \in CompleteCalls :
    /\ Threw(task[p])
    /\ task[p].waits = <<1000, 2000>>


\* C37: every reply that Provider.complete returns as a success is a non-empty
\* text, also when the provider's reply body consists of whitespace only
C37_ReturnedReplyNonEmpty ==
  \A p \in CompleteCalls :
    HasReturned(task[p]) => task[p].result.returned # ""

(***************************************************************************)
(* Chat turns: assistant messages of a turn                                *)
(***************************************************************************)
\* the rows with role assistant that the turn of task record t has inserted
AssistantRowsOf(t) ==
  {i \in 1..Len(t.msgIds) : RowOf(t.msgIds[i]).role = "assistant"}

\* C35: each chat turn persists at most one assistant message, whatever the
\* outcomes of the provider and of the store statements inside appendMessage
\* (insert, last_message_at update, read-back): a turn never leaves two
\* assistant messages for one user message
C35_OneAssistantMessage ==
  \A p \in ChatTurns : Cardinality(AssistantRowsOf(task[p])) <= 1

(***************************************************************************)
(* Feedback: ratings of messages under concurrency and failure             *)
(***************************************************************************)
\* the positions of the feedback rows on the message with this id
FeedbackOn(id) == {i \in 1..Len(feedback) : feedback[i].message_id = id}

Max(S) == CHOOSE x \in S : \A y \in S : x >= y

\* no operation is between its first and its last statement
Quiescent == \A p \in Procs : task[p].pc \in {"idle", "done"}

\* C36: whenever no recordFeedback call is in progress, every message that has
\* at least one feedback row has the rating of its most recently inserted
\* feedback row, under every interleaving of two concurrent calls on the same
\* message and after a failure between the feedback insert and the rating
\* update
C36_RatingIsLatestFeedback ==
  Quiescent =>
    \A i \in 1..Len(messages) :
      FeedbackOn(messages[i].id) # {} =>
        messages[i].rating = Some(feedback[Max(FeedbackOn(messages[i].id))].rating)

(***************************************************************************)
(* Events                                                                  *)
(***************************************************************************)
\* the requests and calls for the upcoming events that have been answered
\* with rows
EventReads ==
  {p \in Procs : /\ task[p].kind \in {"events", "getUpcomingEvents"}
                 /\ task[p].pc = "done" /\ task[p].result.status = 200}

\* C34: upcomingEvents returns only active events whose event_date is not
\* before now, ascending by date, and never more than limit rows, for every
\* limit value the events endpoint can pass (0, negative and non-numeric
\* query values included), with 10 when no limit is given
C34_UpcomingEventsBounded ==
  /\ \A p \in EventReads :
       LET t == task[p]
           rows == t.result.events
       IN /\ \A i \in 1..Len(rows) :
               /\ \E k \in 1..MaxEvents : Events[k] = rows[i]
               /\ rows[i].is_active = 1
               /\ rows[i].event_date >= t.readAt
          /\ \A i, j \in 1..Len(rows) :
               i < j => /\ rows[i].event_date <= rows[j].event_date
                        /\ rows[i].id # rows[j].id
          /\ t.limit # None
          /\ Len(rows) <= IF The(t.limit) < 0 THEN 0 ELSE The(t.limit)
  /\ \A p \in Procs :
       (task[p].kind = "events" /\ ~Truthy(task[p].received))
         => task[p].limit = Some(10)

(***************************************************************************)
(* Store lifecycle: initialize, getDB, healthCheck, close                  *)
(***************************************************************************)
\* the valid chat requests that arrived with the instance in one of the phases
ChatsArrivedIn(phases) ==
  {p \in ChatTurns : task[p].valid /\ task[p].dbAtCall \in phases}

\* the turn of task record t has called no provider and persisted nothing, and
\* if it has ended, it has ended in EMERGENCY
EmergencyOnly(t) ==
  /\ t.outcomes = <<>>
  /\ t.attempt = 0
  /\ t.created = {}
  /\ t.msgIds = <<>>
  /\ t.pc = "done" => t.result = EmergencyResult

\* C38: a chat request that arrives before the route's initialize() has
\* completed, or after it has failed, ends in EMERGENCY with no provider
\* attempt and nothing persisted
C38_UninitializedEndsInEmergency ==
  \A p \in ChatsArrivedIn({"null", "opening"}) : EmergencyOnly(task[p])

\* the same for the requests that arrive while this.db is null, which end at
\* once; a request that arrives after initialize() has completed enters its
\* first store call
NullHandleEndsInEmergency ==
  /\ \A p \in ChatsArrivedIn({"null"}) :
       task[p].pc = "done" /\ EmergencyOnly(task[p])
       /\ task[p].err = NotInitializedError
  /\ \A p \in ChatsArrivedIn({"ready"}) :
       task[p].err # NotInitializedError \/ db.handle = "null"

\* the store methods called directly
StoreOpKinds == {"create", "append", "addFeedback", "getMessages", "getUpcomingEvents"}

\* task p calls a method of the instance in this step
Calls(p, kind) == task[p].pc = "idle" /\ task'[p].pc # "idle" /\ task'[p].kind = kind

\* the call of task p has failed in the step of the call with the error of
\* getDB()
FailsNotInitialized(p) ==
  /\ task'[p].pc = "done"
  /\ task'[p].err = NotInitializedError
  /\ task'[p].result = [status |-> 500, error |-> NotInitializedError]

\* the call of task p has returned in the step of the call without an error
ReturnsAtOnce(p) == task'[p].pc = "done" /\ task'[p].err = ""

\* C39: before initialize() is called and after close() has completed, every
\* store method fails with the not-initialized error and changes nothing,
\* healthCheck returns false without throwing, and close does nothing and
\* does not fail
C39_StoreLifecycle ==
  [][\A p \in Procs :
       (~db.started \/ db.closed) =>
         /\ \A kind \in StoreOpKinds :
              Calls(p, kind) =>
                /\ FailsNotInitialized(p)
                /\ UNCHANGED <<conversations, messages, feedback, db>>
         /\ Calls(p, "storeHealth") =>
              ReturnsAtOnce(p) /\ task'[p].result = [returned |-> FALSE]
         /\ Calls(p, "close") =>
              /\ ReturnsAtOnce(p)
              /\ UNCHANGED <<conversations, messages, feedback, db>>]_vars

\* after a close() that completed, a store method has failed with the
\* not-initialized error and a second close() has returned
C39_Witness ==
  /\ db.closed
  /\ task[1].kind \in StoreOpKinds
  /\ task[1].dbAtCall = "null"
  /\ task[1].err = NotInitializedError
  /\ task[2].kind = "close"
  /\ task[2].dbAtCall = "null"
  /\ task[2].pc = "done"
  /\ task[2].err = ""

=============================================================================
